---- MODULE Spec2Model ----
(***************************************************************************)
(* Verification model of mithro/OpenFPGA (vpr7_x2p / fpga_x2p):            *)
(*   - the configuration-bit assignment pass of the compact Verilog        *)
(*     netlist generator (verilog_compact_netlist.c),                      *)
(*   - the routing-resource-graph node store, the edge builders and the    *)
(*     track functions (rr_graph_builder_utils.cpp),                       *)
(*   - the switch-block / connection-block canonicalizer.                  *)
(* Each subsystem has its own specification over its own variables; the    *)
(* variables of the other subsystems stay at their initial value.          *)
(***************************************************************************)
EXTENDS Integers, Sequences, FiniteSets, TLC

(***************************************************************************)
(* Bounds of the model.                                                    *)
(***************************************************************************)
MaxNx == 2
MaxNy == 2
MaxCapacity == 2
MaxConfBits == 1
MaxNodes == 2
MaxEdges == 2
MaxBatch == 2
MaxInstances == 4
MaxRuns == 2
MaxPins == 2
MaxHeight == 2
MaxGsb == 2
MaxSwitches == 2
MaxSegs == 2
SizeBits == 3

(***************************************************************************)
(* State of the grid pass.                                                 *)
(***************************************************************************)
VARIABLES
  nx, ny,                    \* device extents (globals nx, ny)
  grid,                      \* grid[<<x,y>>] = [type, offset]
  type_descriptors,          \* per block type: capacity and pb_type counts
  spice_model,               \* spice_model[i] = [type, cnt, grid_index_low, grid_index_high]
  num_mem_bit, num_bl, num_wl,       \* counters of cur_sram_orgz_info
  grid_reserved_conf_bits,   \* cur_sram_orgz_info->grid_reserved_conf_bits[x][y]
  grid_conf_bits_lsb,        \* cur_sram_orgz_info->grid_conf_bits_lsb[x][y]
  grid_conf_bits_msb,        \* cur_sram_orgz_info->grid_conf_bits_msb[x][y]
  pc, ix, iy,                \* position of the pass in its loops
  entry_mem_bit,             \* value of the memory-bit counter when the pass was entered
  visited                    \* tiles given a range so far, in visiting order

gridVars == <<nx, ny, grid, type_descriptors, spice_model, num_mem_bit, num_bl,
              num_wl, grid_reserved_conf_bits, grid_conf_bits_lsb,
              grid_conf_bits_msb, pc, ix, iy, entry_mem_bit, visited>>

(***************************************************************************)
(* State of the routing-resource graph (node store and edge builders).     *)
(***************************************************************************)
VARIABLES
  nodes,                     \* rr_graph->rr_node: node id is nodes[id + 1]
  last,                      \* the last call on the graph and its outcome
  alloc_log                  \* what each successful allocate returned

graphVars == <<nodes, last, alloc_log>>

(***************************************************************************)
(* State of the canonicalizer.                                             *)
(***************************************************************************)
VARIABLES
  instances,                 \* the SB and CB instances in scan order: [block, sig]
  mirror,                    \* mirror[i]: the instance i is an exact mirror of (t_sb.mirror)
  rotatable,                 \* rotatable[i]: the instance i is a rotation of (t_sb.rotatable)
  offset,                    \* offset[i]: offset_ipin, offset_opin, offset_chan of i
  seen,                      \* the instances compared so far in this run
  scan,                      \* the instance the scan is at
  runs,                      \* the runs of the algorithm started so far
  first_run                  \* the links the first run ended with

canonVars == <<instances, mirror, rotatable, offset, seen, scan, runs, first_run>>

(***************************************************************************)
(* State of the calls on the pins of one grid tile.                        *)
(***************************************************************************)
VARIABLES
  dev_size,                  \* the device_size the caller passes
  tile_coordinator,          \* the grid_coordinator of the tile
  tile,                      \* the block type of the tile (cur_grid.type)
  tile_io_side,              \* the side determined for an I/O tile
  pin_out                    \* the last call on the tile and what it returned

pinVars == <<dev_size, tile_coordinator, tile, tile_io_side, pin_out>>

(***************************************************************************)
(* State of the dump of the routing blocks into the top-level netlist.     *)
(***************************************************************************)
VARIABLES
  device_rr_gsb,             \* the GSBs of the device and their unique modules
  cb_exist_table,            \* what the global is_cb_exist answers
  netlist,                   \* the instantiations written so far
  dump_pc,                   \* which loop the dump is in
  dump_ix, dump_iy           \* the loop variables ix, iy of the dump

dumpVars == <<device_rr_gsb, cb_exist_table, netlist, dump_pc, dump_ix, dump_iy>>

(***************************************************************************)
(* State of one BasicPort.                                                 *)
(***************************************************************************)
VARIABLES
  port,                      \* lsb_ and msb_ of the port
  port_out                   \* the last call on the port and what it returned

portVars == <<port, port_out>>

(***************************************************************************)
(* State of one call of vpr_fpga_verilog, from the point where the         *)
(* netlists are written and the testbenches are about to be.               *)
(***************************************************************************)
VARIABLES
  caller_setup,              \* the options the caller passed, by value
  vpr_setup,                 \* the function's own copy of them
  api_pc,                    \* the statement the function is at
  calls                      \* the generators called so far, in order

apiVars == <<caller_setup, vpr_setup, api_pc, calls>>

(***************************************************************************)
(* State of one call of dump_compact_verilog_logic_blocks.                 *)
(***************************************************************************)
VARIABLES
  lb_types,                  \* type_descriptors[0 .. num_types - 1], each with its kind
  lb_pc,                     \* the statement the function is at
  lb_itype,                  \* itype of the loop over the types
  lb_iside,                  \* iside of the loop over the sides of the I/O type
  lb_files,                  \* the block netlists written so far, in order
  lb_counters,               \* the spice-model counter and the memory bits of cur_sram_orgz_info
  stamped_spice_model_cnt,   \* the snapshot of the spice-model counter
  stamped_sram_orgz_info,    \* the snapshot of sram_orgz_info
  lb_entry,                  \* the counters when the function was entered
  lb_dirty,                  \* a dump has changed a counter
  lb_update_from             \* the counters the grid-index update started from

lbVars == <<lb_types, lb_pc, lb_itype, lb_iside, lb_files, lb_counters,
            stamped_spice_model_cnt, stamped_sram_orgz_info, lb_entry,
            lb_dirty, lb_update_from>>

(***************************************************************************)
(* State of one call of ProcessSegments.                                   *)
(***************************************************************************)
VARIABLES
  Switches,                  \* the names of the switches read before
  NumSegs,                   \* the number of segment elements
  Segs,                      \* the segments loaded so far
  seg_node,                  \* the segment element read last
  seg_pc                     \* "load", "return" or "exit"

segVars == <<Switches, NumSegs, Segs, seg_node, seg_pc>>

(***************************************************************************)
(* State of one call of dump_compact_verilog_defined_one_grid.             *)
(***************************************************************************)
VARIABLES
  dg_tile,                   \* grid[ix][iy]: its type and offset, and the border side
  dg_sram_orgz_info,         \* the configuration bits of the tile in cur_sram_orgz_info
  dg_pc,                     \* "call" or "return"
  dg_out                     \* the instantiation written, if any

dgVars == <<dg_tile, dg_sram_orgz_info, dg_pc, dg_out>>

vars == <<gridVars, graphVars, canonVars, pinVars, dumpVars, portVars, apiVars, lbVars, segVars, dgVars>>

otherThanGrid == <<graphVars, canonVars, pinVars, dumpVars, portVars, apiVars, lbVars, segVars, dgVars>>
otherThanGraph == <<gridVars, canonVars, pinVars, dumpVars, portVars, apiVars, lbVars, segVars, dgVars>>
otherThanCanon == <<gridVars, graphVars, pinVars, dumpVars, portVars, apiVars, lbVars, segVars, dgVars>>
otherThanPin == <<gridVars, graphVars, canonVars, dumpVars, portVars, apiVars, lbVars, segVars, dgVars>>
otherThanDump == <<gridVars, graphVars, canonVars, pinVars, portVars, apiVars, lbVars, segVars, dgVars>>
otherThanPort == <<gridVars, graphVars, canonVars, pinVars, dumpVars, apiVars, lbVars, segVars, dgVars>>
otherThanApi == <<gridVars, graphVars, canonVars, pinVars, dumpVars, portVars, lbVars, segVars, dgVars>>
otherThanLb == <<gridVars, graphVars, canonVars, pinVars, dumpVars, portVars, apiVars, segVars, dgVars>>
otherThanSeg == <<gridVars, graphVars, canonVars, pinVars, dumpVars, portVars, apiVars, lbVars, dgVars>>
otherThanDg == <<gridVars, graphVars, canonVars, pinVars, dumpVars, portVars, apiVars, lbVars, segVars>>

(***************************************************************************)
(* The device: block types and the grid of tiles.                          *)
(***************************************************************************)
EMPTY_TYPE == "EMPTY"
IO_TYPE == "IO"
FILL_TYPE == "FILL"
HETERO_TYPE == "HET"
BlockTypes == {EMPTY_TYPE, IO_TYPE, FILL_TYPE, HETERO_TYPE}

Coords(w, h) == (0 .. w + 1) \X (0 .. h + 1)

\* One type descriptor (t_type_descriptor with its pb_type counts).
TypeDescriptor(cap, bits, reserved, iopads, height) ==
  [capacity |-> cap,
   physical_mode_num_conf_bits |-> bits,
   physical_mode_num_reserved_conf_bits |-> reserved,
   physical_mode_num_iopads |-> iopads,
   height |-> height]

\* The architectures the pass is run on: an I/O type of capacity 1..MaxCapacity
\* holding one pad per instance, a CLB and a heterogeneous block of height 2.
Architectures ==
  { [t \in BlockTypes |->
       CASE t = EMPTY_TYPE  -> TypeDescriptor(0, 0, 0, 0, 1)
         [] t = IO_TYPE     -> TypeDescriptor(cap, bio, res, 1, 1)
         [] t = FILL_TYPE   -> TypeDescriptor(1, bclb, res, 0, 1)
         [] t = HETERO_TYPE -> TypeDescriptor(1, bhet, res, 0, 2)] :
      cap \in 1 .. MaxCapacity, bio \in 0 .. MaxConfBits,
      bclb \in 0 .. MaxConfBits, bhet \in 0 .. MaxConfBits, res \in 0 .. 1 }

\* A tile of the grid (t_grid_tile): its type and its offset inside a block
\* higher than one tile.
Tile(t, off) == [type |-> t, offset |-> off]

\* The grid VPR allocates: a ring of I/O tiles around nx x ny interior
\* tiles, empty corners, and every interior column either CLBs or stacked
\* heterogeneous blocks (an incomplete block at the top is left empty).
\* interior_io puts an I/O tile at (w,h), the last interior tile of the
\* traversal, which VPR itself never does.
GridOf(w, h, col, interior_io) ==
  [c \in Coords(w, h) |->
     LET x == c[1]
         y == c[2] IN
     IF (x \in {0, w + 1}) /\ (y \in {0, h + 1}) THEN Tile(EMPTY_TYPE, 0)
     ELSE IF (x \in {0, w + 1}) \/ (y \in {0, h + 1}) THEN Tile(IO_TYPE, 0)
     ELSE IF interior_io /\ x = w /\ y = h THEN Tile(IO_TYPE, 0)
     ELSE IF col[x] = FILL_TYPE THEN Tile(FILL_TYPE, 0)
     ELSE IF y % 2 = 0 THEN Tile(HETERO_TYPE, 1)
     ELSE IF y + 1 <= h THEN Tile(HETERO_TYPE, 0)
     ELSE Tile(EMPTY_TYPE, 0)]

SPICE_MODEL_SRAM == "SRAM"
SPICE_MODEL_IOPAD == "IOPAD"
SPICE_MODEL_MUX == "MUX"

\* The spice models of the architecture: a multiplexer, the SRAM and the pad.
SpiceModels(w, h, sram_cnt) ==
  LET zero == [c \in Coords(w, h) |-> 0]
      M(t, cnt) == [type |-> t, cnt |-> cnt,
                    grid_index_low |-> zero, grid_index_high |-> zero] IN
  << M(SPICE_MODEL_MUX, 0), M(SPICE_MODEL_SRAM, sram_cnt), M(SPICE_MODEL_IOPAD, 0) >>

GridInit ==
  /\ nx \in 0 .. MaxNx
  /\ ny \in 0 .. MaxNy
  /\ type_descriptors \in Architectures
  /\ \E col \in [1 .. nx -> {FILL_TYPE, HETERO_TYPE}], bad \in BOOLEAN :
       /\ bad => (nx >= 1 /\ ny >= 1 /\ \A x \in 1 .. nx : col[x] = FILL_TYPE)
       /\ grid = GridOf(nx, ny, col, bad)
  /\ num_mem_bit \in {0, 3}
  /\ num_bl = num_mem_bit
  /\ num_wl = num_mem_bit
  /\ spice_model = SpiceModels(nx, ny, num_mem_bit)
  /\ grid_reserved_conf_bits = [c \in Coords(nx, ny) |-> 0]
  /\ grid_conf_bits_lsb = [c \in Coords(nx, ny) |-> 0]
  /\ grid_conf_bits_msb = [c \in Coords(nx, ny) |-> 0]
  /\ pc = "entry"
  /\ ix = 0
  /\ iy = 0
  /\ entry_mem_bit = num_mem_bit
  /\ visited = << >>

(***************************************************************************)
(* compact_verilog_update_one_spice_model_grid_index                       *)
(***************************************************************************)
UpdatedSpiceModel(m, t, x, y) ==
  LET td == type_descriptors[t]
      stamped_cnt == m.cnt
      n == IF m.type = SPICE_MODEL_SRAM
             THEN td.capacity * td.physical_mode_num_conf_bits
             ELSE td.capacity * td.physical_mode_num_iopads IN
  IF m.type \in {SPICE_MODEL_SRAM, SPICE_MODEL_IOPAD}
    THEN [m EXCEPT !.grid_index_low[<<x, y>>] = stamped_cnt,
                   !.grid_index_high[<<x, y>>] = stamped_cnt + n,
                   !.cnt = stamped_cnt + n]
    ELSE m

compact_verilog_update_one_spice_model_grid_index(t, x, y) ==
  spice_model' = [i \in DOMAIN spice_model |-> UpdatedSpiceModel(spice_model[i], t, x, y)]

\* A faulty variant: the width of the range leaves out the capacity.
update_sram_orgz_info_grid_index_no_capacity(t, x, y) ==
  LET td == type_descriptors[t]
      cur_num_conf_bits == num_mem_bit
      msb == cur_num_conf_bits + td.physical_mode_num_conf_bits IN
  /\ grid_reserved_conf_bits' =
       [grid_reserved_conf_bits EXCEPT ![<<x, y>>] = td.physical_mode_num_reserved_conf_bits]
  /\ grid_conf_bits_lsb' = [grid_conf_bits_lsb EXCEPT ![<<x, y>>] = cur_num_conf_bits]
  /\ grid_conf_bits_msb' = [grid_conf_bits_msb EXCEPT ![<<x, y>>] = msb]
  /\ num_mem_bit' = msb
  /\ num_bl' = msb
  /\ num_wl' = msb

(***************************************************************************)
(* compact_verilog_update_sram_orgz_info_grid_index                        *)
(***************************************************************************)
compact_verilog_update_sram_orgz_info_grid_index(t, x, y) ==
  LET td == type_descriptors[t]
      cur_num_conf_bits == num_mem_bit
      msb == cur_num_conf_bits + td.capacity * td.physical_mode_num_conf_bits IN
  /\ grid_reserved_conf_bits' =
       [grid_reserved_conf_bits EXCEPT ![<<x, y>>] = td.physical_mode_num_reserved_conf_bits]
  /\ grid_conf_bits_lsb' = [grid_conf_bits_lsb EXCEPT ![<<x, y>>] = cur_num_conf_bits]
  /\ grid_conf_bits_msb' = [grid_conf_bits_msb EXCEPT ![<<x, y>>] = msb]
  /\ num_mem_bit' = msb
  /\ num_bl' = msb
  /\ num_wl' = msb

\* Both updates of one visited tile, and the record of the visit.
UpdateTile(x, y) ==
  /\ compact_verilog_update_one_spice_model_grid_index(grid[<<x, y>>].type, x, y)
  /\ compact_verilog_update_sram_orgz_info_grid_index(grid[<<x, y>>].type, x, y)
  /\ visited' = Append(visited, <<x, y>>)

SkipTile ==
  UNCHANGED <<spice_model, grid_reserved_conf_bits, grid_conf_bits_lsb,
              grid_conf_bits_msb, num_mem_bit, num_bl, num_wl, visited>>

deviceVars == <<nx, ny, grid, type_descriptors, entry_mem_bit>>

\* Move the loop position.
Goto(p, x, y) == pc' = p /\ ix' = x /\ iy' = y

(***************************************************************************)
(* compact_verilog_update_grid_spice_model_and_sram_orgz_info, one loop    *)
(* iteration per step.                                                     *)
(***************************************************************************)
\* A faulty variant: only nx is checked.
invalid_grid_size_nx_only == 0 = nx

\* The check of the grid size.
invalid_grid_size == (0 = nx) \/ (0 = ny)

\* The check of the grid size and the entry into the first loop.
UpdateEnter ==
  /\ pc = "entry"
  /\ IF invalid_grid_size
       THEN Goto("invalid", ix, iy)
       ELSE Goto("core", 1, 1)
  /\ SkipTile
  /\ UNCHANGED deviceVars
  /\ UNCHANGED otherThanGrid

\* A faulty variant: ix as the inner loop.
CoreAdvance_x_inner(x, y) ==
  IF x + 1 < nx + 1 THEN <<"core", x + 1, y>>
  ELSE IF y + 1 < ny + 1 THEN <<"core", 1, y + 1>>
  ELSE <<"top", 1, ny + 1>>

\* The position after interior tile (x, y): iy is the inner loop.
CoreAdvance(x, y) ==
  IF y + 1 < ny + 1 THEN <<"core", x, y + 1>>
  ELSE IF x + 1 < nx + 1 THEN <<"core", x + 1, 1>>
  ELSE <<"top", 1, ny + 1>>

\* A faulty variant: the assertion is left out.
core_grid_assert_none(x, y) == TRUE

\* The assertion of the loop over the interior tiles: the tile is no I/O.
core_grid_assert(x, y) == IO_TYPE # grid[<<x, y>>].type

\* One iteration of the loop over the interior tiles.
CoreStep ==
  /\ pc = "core"
  /\ IF ~core_grid_assert(ix, iy)
       THEN Goto("abort", ix, iy) /\ SkipTile
       ELSE /\ LET n == CoreAdvance(ix, iy) IN Goto(n[1], n[2], n[3])
            /\ IF EMPTY_TYPE = grid[<<ix, iy>>].type \/ 0 < grid[<<ix, iy>>].offset
                 THEN SkipTile
                 ELSE UpdateTile(ix, iy)
  /\ UNCHANGED deviceVars
  /\ UNCHANGED otherThanGrid

\* One iteration of a loop over one side of the I/O ring.
IoStep(next) ==
  /\ IF IO_TYPE # grid[<<ix, iy>>].type
       THEN Goto("abort", ix, iy) /\ SkipTile
       ELSE Goto(next[1], next[2], next[3]) /\ UpdateTile(ix, iy)
  /\ UNCHANGED deviceVars
  /\ UNCHANGED otherThanGrid

\* The order of the four sides: which loop follows which.
AfterTop == <<"right", nx + 1, 1>>
AfterRight == <<"bottom", 1, 0>>
AfterBottom == <<"left", 0, 1>>
AfterLeft == <<"done", 0, ny + 1>>

TopStep ==
  /\ pc = "top"
  /\ IoStep(IF ix + 1 < nx + 1 THEN <<"top", ix + 1, iy>> ELSE AfterTop)

RightStep ==
  /\ pc = "right"
  /\ IoStep(IF iy + 1 < ny + 1 THEN <<"right", ix, iy + 1>> ELSE AfterRight)

BottomStep ==
  /\ pc = "bottom"
  /\ IoStep(IF ix + 1 < nx + 1 THEN <<"bottom", ix + 1, iy>> ELSE AfterBottom)

LeftStep ==
  /\ pc = "left"
  /\ IoStep(IF iy + 1 < ny + 1 THEN <<"left", ix, iy + 1>> ELSE AfterLeft)

GridNext ==
  \/ UpdateEnter
  \/ CoreStep
  \/ TopStep
  \/ RightStep
  \/ BottomStep
  \/ LeftStep

(***************************************************************************)
(* Routing-resource nodes: the node store and its allocation.              *)
(***************************************************************************)
RRTypes == {"SOURCE", "SINK", "IPIN", "OPIN", "CHANX", "CHANY", "INTRA_CLUSTER_EDGE"}
ChannelTypes == {"CHANX", "CHANY"}
e_direction == {"INC_DIRECTION", "DEC_DIRECTION", "BI_DIRECTION"}

Bounds(xl, xh, yl, yh) == [xlow |-> xl, xhigh |-> xh, ylow |-> yl, yhigh |-> yh]

Inverted(b) == b.xlow > b.xhigh \/ b.ylow > b.yhigh

\* The bounds allocate refuses: inverted ones, for a channel node.
InvalidBounds(type, b) == type \in ChannelTypes /\ Inverted(b)

\* The fields of t_rr_node the graph builders read and write. edges holds the
\* written entries of the arrays edges[] and switches[], as <<node, switch>>;
\* num_edges is the length the arrays were sized to.
UnsetNode ==
  [type |-> "NUM_RR_TYPES", xlow |-> 0, xhigh |-> 0, ylow |-> 0, yhigh |-> 0,
   direction |-> "BI_DIRECTION", track_ids |-> << >>,
   fan_in |-> 0, num_edges |-> 0, edges |-> << >>]

\* yhigh is not among the fields the function sets: xhigh is set twice.
tileable_rr_graph_init_rr_node(cur_rr_node) ==
  [cur_rr_node EXCEPT !.xlow = 0, !.xhigh = 0, !.ylow = 0,
                      !.track_ids = << >>,
                      !.fan_in = 0, !.num_edges = 0,
                      !.type = "NUM_RR_TYPES", !.edges = << >>,
                      !.direction = "BI_DIRECTION"]

\* A node as allocated: initialised, then given its type, bounds, direction
\* and track ids.
RoutingNode(type, b, dir, tracks) ==
  [tileable_rr_graph_init_rr_node(UnsetNode) EXCEPT
     !.type = type, !.xlow = b.xlow, !.xhigh = b.xhigh,
     !.ylow = b.ylow, !.yhigh = b.yhigh,
     !.direction = dir, !.track_ids = tracks]

BoundsOf(n) == Bounds(n.xlow, n.xhigh, n.ylow, n.yhigh)

\* A faulty variant: the new node takes the place of the last one.
allocate_store_reuse_last(g, n) ==
  IF g = << >> THEN << n >> ELSE [g EXCEPT ![Len(g)] = n]

\* The store after an allocation: append-only.
allocate_store(g, n) == Append(g, n)

\* rr_graph->rr_node[id] and rr_graph->num_rr_nodes: ids count from 0.
rr_node(g, id) == g[id + 1]

num_rr_nodes(g) == Len(g)

\* The outcome of a call, as the caller sees it, with what the call did.
\* status: Ok, InvalidBounds, or Aborted when an assertion of the call failed;
\* changed: the call changed the graph; dedup: the batch named a node twice
\* and named a node the edge list already held; ref: the results of the track
\* functions, or as_one_by_one: whether the batch call left the targets and
\* the fan_in of every node as add_one_edge_for_two_rr_nodes, called on the
\* elements of the batch in turn, would have.
Outcome(op, status, changed, dedup, ref) ==
  [op |-> op, status |-> status, changed |-> changed, dedup |-> dedup, ref |-> ref]

\* A failed assertion ends the program.
Running == last.status # "Aborted"

EdgeCount(g) ==
  LET RECURSIVE Sum(_)
      Sum(i) == IF i = 0 THEN 0 ELSE Len(g[i].edges) + Sum(i - 1) IN
  Sum(Len(g))

\* allocate(kind, bounds), with the direction and the track ids of the node;
\* the id returned is the index of the new node.
Allocate(type, b, dir, tracks) ==
  /\ Running
  /\ IF InvalidBounds(type, b)
       THEN /\ nodes' = nodes
            /\ alloc_log' = alloc_log
            /\ last' = Outcome("allocate", "InvalidBounds", FALSE, FALSE, << >>)
       ELSE /\ Len(nodes) < MaxNodes
            /\ nodes' = allocate_store(nodes, RoutingNode(type, b, dir, tracks))
            /\ alloc_log' = Append(alloc_log, [id |-> Len(nodes') - 1, type |-> type, bounds |-> b])
            /\ last' = Outcome("allocate", "Ok", TRUE, FALSE, << >>)
  /\ UNCHANGED otherThanGraph

\* The assertions of the three track functions: a CHANX or CHANY node, and a
\* direction that is INC_DIRECTION or DEC_DIRECTION.
track_rr_node_asserts(track_rr_node) ==
  /\ track_rr_node.type = "CHANX" \/ track_rr_node.type = "CHANY"
  /\ track_rr_node.direction = "INC_DIRECTION" \/ track_rr_node.direction = "DEC_DIRECTION"

get_track_rr_node_start_coordinator(track_rr_node) ==
  IF track_rr_node.direction = "INC_DIRECTION"
    THEN <<track_rr_node.xlow, track_rr_node.ylow>>
    ELSE <<track_rr_node.xhigh, track_rr_node.yhigh>>

\* A faulty variant: the end taken like the start.
get_track_rr_node_end_as_start(track_rr_node) ==
  IF track_rr_node.direction = "INC_DIRECTION"
    THEN <<track_rr_node.xlow, track_rr_node.ylow>>
    ELSE <<track_rr_node.xhigh, track_rr_node.yhigh>>

get_track_rr_node_end_coordinator(track_rr_node) ==
  IF track_rr_node.direction = "INC_DIRECTION"
    THEN <<track_rr_node.xhigh, track_rr_node.yhigh>>
    ELSE <<track_rr_node.xlow, track_rr_node.ylow>>

get_track_rr_node_end_track_id(track_rr_node) ==
  IF track_rr_node.direction = "INC_DIRECTION"
    THEN track_rr_node.track_ids[Len(track_rr_node.track_ids)]
    ELSE track_rr_node.track_ids[1]

\* The three track functions called on an allocated node.
GetTrackEnds(id) ==
  /\ Running
  /\ id \in 0 .. num_rr_nodes(nodes) - 1
  /\ last' = IF ~track_rr_node_asserts(rr_node(nodes, id))
               THEN Outcome("get_track", "Aborted", FALSE, FALSE, << >>)
               ELSE Outcome("get_track", "Ok", FALSE, FALSE,
                            [id |-> id,
                             start |-> get_track_rr_node_start_coordinator(rr_node(nodes, id)),
                             end |-> get_track_rr_node_end_coordinator(rr_node(nodes, id)),
                             end_track_id |-> get_track_rr_node_end_track_id(rr_node(nodes, id))])
  /\ UNCHANGED <<nodes, alloc_log>>
  /\ UNCHANGED otherThanGraph

(***************************************************************************)
(* The edge builders of rr_graph_builder_utils.                            *)
(***************************************************************************)
SwitchIds == {0, 1}

\* The nodes an edge list points at; an edge is <<node, switch>>.
Targets(es) == {es[i][1] : i \in DOMAIN es}

InRange(g, id) == -1 < id /\ id < num_rr_nodes(g)

\* A faulty variant: only the source id is checked.
add_one_edge_asserts_src_only(g, src_rr_node_id, des_rr_node_id) ==
  InRange(g, src_rr_node_id)

\* The two assertions add_one_edge_for_two_rr_nodes starts with.
add_one_edge_asserts(g, src_rr_node_id, des_rr_node_id) ==
  InRange(g, src_rr_node_id) /\ InRange(g, des_rr_node_id)

\* The source's arrays grown by the written edges, and the fan_in of the
\* nodes these point at.
AppendEdges(g, src_rr_node_id, sized, written) ==
  [n \in DOMAIN g |->
     [g[n] EXCEPT !.num_edges = IF n = src_rr_node_id + 1 THEN @ + sized ELSE @,
                  !.edges = IF n = src_rr_node_id + 1 THEN @ \o written ELSE @,
                  !.fan_in = @ + Cardinality({i \in DOMAIN written : written[i][1] + 1 = n})]]

\* A faulty variant: the edge is stored and the target's fan_in is left.
add_one_edge_no_fan_in(g, src_rr_node_id, des_rr_node_id, switch_id) ==
  IF ~add_one_edge_asserts(g, src_rr_node_id, des_rr_node_id) THEN g
  ELSE [g EXCEPT ![src_rr_node_id + 1].num_edges = @ + 1,
                 ![src_rr_node_id + 1].edges = Append(@, <<des_rr_node_id, switch_id>>)]

\* The graph after add_one_edge_for_two_rr_nodes: the edge is appended and
\* counted, whatever the edge list holds; nothing is done on a failed
\* assertion.
add_one_edge_for_two_rr_nodes(g, src_rr_node_id, des_rr_node_id, switch_id) ==
  IF ~add_one_edge_asserts(g, src_rr_node_id, des_rr_node_id) THEN g
  ELSE AppendEdges(g, src_rr_node_id, 1, << <<des_rr_node_id, switch_id>> >>)

AddOneEdge(src, des, sw) ==
  LET g == add_one_edge_for_two_rr_nodes(nodes, src, des, sw) IN
  /\ Running
  /\ EdgeCount(g) <= MaxEdges
  /\ nodes' = g
  /\ last' = Outcome("add_one_edge",
                     IF add_one_edge_asserts(nodes, src, des) THEN "Ok" ELSE "Aborted",
                     g # nodes, FALSE, << >>)
  /\ UNCHANGED alloc_log
  /\ UNCHANGED otherThanGraph

\* A faulty variant: nothing of the batch is taken for redundant.
des_rr_node_ids_to_add_all(g, src_rr_node_id, batch) == batch

\* The edges of a batch that the source's edge list, as it is before the
\* call, does not point at yet; the batch is des_rr_node_ids and
\* driver_switches, paired. The elements of the batch are not compared with
\* each other.
des_rr_node_ids_to_add(g, src_rr_node_id, batch) ==
  LET held == Targets(rr_node(g, src_rr_node_id).edges) IN
  SelectSeq(batch, LAMBDA e : e[1] \notin held)

\* The edges the final loop writes: all, or those before the first whose
\* node fails the range assertion.
WrittenEdges(g, to_add) ==
  LET bad == {i \in DOMAIN to_add : ~InRange(g, to_add[i][1])} IN
  IF bad = {} THEN to_add
  ELSE SubSeq(to_add, 1, (CHOOSE i \in bad : \A j \in bad : i <= j) - 1)

add_edges_asserts(g, src_rr_node_id, batch) ==
  /\ InRange(g, src_rr_node_id)
  /\ \A i \in DOMAIN batch : InRange(g, batch[i][1])

\* The graph after add_edges_for_two_rr_nodes, or as a failed assertion
\* leaves it.
add_edges_for_two_rr_nodes(g, src_rr_node_id, batch) ==
  IF ~InRange(g, src_rr_node_id) THEN g
  ELSE LET to_add == des_rr_node_ids_to_add(g, src_rr_node_id, batch) IN
       AppendEdges(g, src_rr_node_id, Len(to_add), WrittenEdges(g, to_add))

\* The add_one_edge_for_two_rr_nodes calls of a batch, one element after the
\* other.
RECURSIVE add_edges_one_by_one(_, _, _)
add_edges_one_by_one(g, src, batch) ==
  IF batch = << >> THEN g
  ELSE add_edges_one_by_one(
         add_one_edge_for_two_rr_nodes(g, src, Head(batch)[1], Head(batch)[2]),
         src, Tail(batch))

\* What a graph holds, up to the stored order and the switch of its edges.
GraphSummary(g) ==
  [n \in DOMAIN g |-> [targets |-> Targets(g[n].edges), fan_in |-> g[n].fan_in]]

HasRepeatedTarget(batch) ==
  \E i, j \in DOMAIN batch : i < j /\ batch[i][1] = batch[j][1]

AddEdges(src, batch) ==
  LET g == add_edges_for_two_rr_nodes(nodes, src, batch)
      ok == add_edges_asserts(nodes, src, batch) IN
  /\ Running
  /\ EdgeCount(g) <= MaxEdges
  /\ nodes' = g
  /\ last' = IF ~ok THEN Outcome("add_edges", "Aborted", g # nodes, FALSE, << >>)
             ELSE Outcome("add_edges", "Ok", g # nodes,
                          /\ HasRepeatedTarget(batch)
                          /\ Targets(batch) \cap Targets(rr_node(nodes, src).edges) # {},
                          [as_one_by_one |->
                             GraphSummary(g) = GraphSummary(add_edges_one_by_one(nodes, src, batch))])
  /\ UNCHANGED alloc_log
  /\ UNCHANGED otherThanGraph

\* Node ids a caller may pass: the allocated ones, and one below and one above.
NodeIdInputs == -1 .. num_rr_nodes(nodes)

\* The batches a caller may pass, of up to MaxBatch edges: allocated nodes
\* with switch 0; allocated nodes with the first of them named again at the
\* end, the switches 0, 1, 0, ... in turn; and allocated nodes followed by
\* one that is not allocated.
BatchOf(dsts, alternate) ==
  [i \in DOMAIN dsts |-> <<dsts[i], IF alternate THEN (i - 1) % 2 ELSE 0>>]

TargetLists(k) ==
  UNION { [1 .. n -> 0 .. num_rr_nodes(nodes) - 1] : n \in 0 .. k }

Batches ==
  { BatchOf(dsts, FALSE) : dsts \in TargetLists(MaxBatch - 1) }
    \cup { BatchOf(Append(dsts, dsts[1]), TRUE) :
             dsts \in TargetLists(MaxBatch - 1) \ {<< >>} }
    \cup { BatchOf(Append(dsts, num_rr_nodes(nodes)), FALSE) : dsts \in TargetLists(MaxBatch - 1) }

\* The batch calls: any batch on an allocated source, and a batch of at most
\* one edge on a source that is not allocated.
BulkCalls ==
  { <<src, batch>> : src \in 0 .. num_rr_nodes(nodes) - 1, batch \in Batches }
    \cup { <<num_rr_nodes(nodes), BatchOf(dsts, FALSE)>> : dsts \in TargetLists(1) }

\* The channel nodes a caller may ask for: a span along the channel's axis
\* with one track id per tile of the span, or inverted bounds.
ChanXInputs ==
  { [bounds |-> Bounds(0, 1, 0, 0), track_ids |-> <<1, 2>>],
    [bounds |-> Bounds(2, 2, 1, 1), track_ids |-> <<0>>],
    [bounds |-> Bounds(1, 0, 0, 0), track_ids |-> <<1, 2>>],
    [bounds |-> Bounds(0, 1, 2, 1), track_ids |-> <<1, 2>>] }

ChanYInputs ==
  { [bounds |-> Bounds(1, 1, 0, 2), track_ids |-> <<2, 0, 1>>],
    [bounds |-> Bounds(0, 0, 1, 1), track_ids |-> <<0>>],
    [bounds |-> Bounds(0, 0, 2, 1), track_ids |-> <<1, 2>>],
    [bounds |-> Bounds(2, 0, 0, 1), track_ids |-> <<1, 2>>] }

\* The pins, sources and sinks a caller may ask for: points.
PointInputs == { Bounds(0, 0, 0, 0), Bounds(1, 1, 2, 2) }

GraphInit ==
  /\ nodes = << >>
  /\ alloc_log = << >>
  /\ last = Outcome("none", "Ok", FALSE, FALSE, << >>)

\* The calls of the edge-building phase: pins are allocated and wired.
AllocatePin == Allocate("IPIN", Bounds(0, 0, 0, 0), "BI_DIRECTION", << >>)

GraphNext ==
  \/ AllocatePin
  \/ Running /\ \E src \in NodeIdInputs, des \in NodeIdInputs, sw \in SwitchIds :
                  AddOneEdge(src, des, sw)
  \/ Running /\ \E call \in BulkCalls : AddEdges(call[1], call[2])

\* The calls of the allocation phase: nodes of every type, and the track
\* functions on them.
AllocateChanX ==
  \E c \in ChanXInputs, dir \in e_direction : Allocate("CHANX", c.bounds, dir, c.track_ids)

AllocateChanY ==
  \E c \in ChanYInputs, dir \in e_direction : Allocate("CHANY", c.bounds, dir, c.track_ids)

AllocatePoint ==
  \E type \in RRTypes \ ChannelTypes, b \in PointInputs :
    Allocate(type, b, "BI_DIRECTION", << >>)

NodeNext ==
  \/ AllocateChanX
  \/ AllocateChanY
  \/ AllocatePoint
  \/ \E id \in NodeIdInputs : GetTrackEnds(id)

(***************************************************************************)
(* The canonicalizer of switch-block and connection-block instances.       *)
(***************************************************************************)
\* The value of a mirror or rotatable link that is not set.
NoLink == 0

\* The kinds of instances, in the order their tables are scanned.
Blocks == <<"SB", "CBX", "CBY">>

BlockRank(b) == CHOOSE k \in DOMAIN Blocks : Blocks[k] = b

\* The indexes an offset rotates: those of the pins and tracks of a side.
TrackIndexes == {0, 1, 2}

Shift(indexes, k) == {(i + k) % Cardinality(TrackIndexes) : i \in indexes}

\* The offsets of an instance: offset_ipin, offset_opin, offset_chan.
OffsetVectors == [ipin : TrackIndexes, opin : TrackIndexes, chan : TrackIndexes]

ZeroOffset == [ipin |-> 0, opin |-> 0, chan |-> 0]

\* A wiring signature with its indexes rotated by an offset vector.
Rotate(sig, off) ==
  [ipin |-> Shift(sig.ipin, off.ipin),
   opin |-> Shift(sig.opin, off.opin),
   chan |-> Shift(sig.chan, off.chan),
   switch |-> sig.switch]

\* The wiring signatures of the device, as the connected pin and track
\* indexes and the switch type of the edges: two that a rotation maps on each
\* other and one that differs from the first in the switch type only.
SigA == [ipin |-> {0}, opin |-> {0}, chan |-> {0, 1}, switch |-> 0]

SigB == [ipin |-> {0}, opin |-> {0}, chan |-> {0, 1}, switch |-> 1]

Signatures == {SigA, Rotate(SigA, [ipin |-> 1, opin |-> 0, chan |-> 1]), SigB}

\* A faulty variant: the switch types are left out of the comparison.
is_mirror_without_switches(current, earlier) ==
  /\ current.ipin = earlier.ipin
  /\ current.opin = earlier.opin
  /\ current.chan = earlier.chan

\* The comparison of two full wiring signatures.
is_mirror(current, earlier) == current = earlier

\* A faulty variant: the offsets that make the current signature identical
\* to the earlier one.
RotationOffsets_reversed(current, earlier) ==
  {off \in OffsetVectors : Rotate(current, off) = earlier}

\* A faulty variant: no rotation is ever found.
RotationOffsets_none(current, earlier) == {}

\* The offsets that make the earlier signature identical to the current one.
RotationOffsets(current, earlier) ==
  {off \in OffsetVectors : Rotate(earlier, off) = current}

\* The order in which the offsets are tried.
OffsetRank(off) ==
  (off.ipin * Cardinality(TrackIndexes) + off.opin) * Cardinality(TrackIndexes) + off.chan

FirstOffset(offs) ==
  CHOOSE off \in offs : \A other \in offs : OffsetRank(off) <= OffsetRank(other)

\* A faulty variant: the instance is entered in the table before it is
\* compared.
SeenIncludingSelf(table, i) == Append(table, i)

\* The table the current instance is compared with: the instances seen
\* before it, in the order they were seen.
SeenBefore(table, i) == table

\* First-seen wins: of the matching instances, the one seen first.
FirstSeen(table, matching) ==
  table[CHOOSE k \in DOMAIN table :
          /\ table[k] \in matching
          /\ \A l \in DOMAIN table : table[l] \in matching => k <= l]

\* One instance is canonicalized: an exact mirror of the first identical
\* instance seen; else rotatable on the first instance seen that a rotation
\* makes identical, with the offsets; else a unique module.
Canonicalize ==
  /\ scan \in DOMAIN instances
  /\ LET table == SeenBefore(seen, scan)
         candidates == {j \in {table[k] : k \in DOMAIN table} :
                          instances[j].block = instances[scan].block}
         identical == {j \in candidates : is_mirror(instances[scan].sig, instances[j].sig)}
         rotated == {j \in candidates :
                       RotationOffsets(instances[scan].sig, instances[j].sig) # {}}
     IN  IF identical # {}
           THEN /\ mirror' = [mirror EXCEPT ![scan] = FirstSeen(table, identical)]
                /\ UNCHANGED <<rotatable, offset>>
         ELSE IF rotated # {}
           THEN /\ rotatable' = [rotatable EXCEPT ![scan] = FirstSeen(table, rotated)]
                /\ offset' = [offset EXCEPT ![scan] =
                                FirstOffset(RotationOffsets(instances[scan].sig,
                                                            instances[FirstSeen(table, rotated)].sig))]
                /\ UNCHANGED mirror
         ELSE UNCHANGED <<mirror, rotatable, offset>>
  /\ seen' = Append(seen, scan)
  /\ scan' = scan + 1
  /\ UNCHANGED <<instances, runs, first_run>>
  /\ UNCHANGED otherThanCanon

\* The links of all instances.
Links ==
  [i \in DOMAIN instances |->
     [mirror |-> mirror[i], rotatable |-> rotatable[i], offset |-> offset[i]]]

\* A faulty variant: the table of seen instances survives into the next run.
KeptSeen(table) == table

\* The table of seen instances at the start of a run.
ClearedSeen(table) == << >>

\* The algorithm is run again on the same device.
Rerun ==
  /\ scan = Len(instances) + 1
  /\ runs < MaxRuns
  /\ first_run' = IF runs = 1 THEN Links ELSE first_run
  /\ mirror' = [i \in DOMAIN instances |-> NoLink]
  /\ rotatable' = [i \in DOMAIN instances |-> NoLink]
  /\ offset' = [i \in DOMAIN instances |-> ZeroOffset]
  /\ seen' = ClearedSeen(seen)
  /\ scan' = 1
  /\ runs' = runs + 1
  /\ UNCHANGED instances
  /\ UNCHANGED otherThanCanon

\* The devices: up to MaxInstances instances in scan order, the switch blocks
\* before the connection blocks of the X channels before those of the Y
\* channels, each with one of the signatures.
InstanceLists ==
  UNION { { s \in [1 .. n -> [block : {Blocks[k] : k \in DOMAIN Blocks}, sig : Signatures]] :
              \A a, b \in 1 .. n :
                a < b => BlockRank(s[a].block) <= BlockRank(s[b].block) } :
          n \in 1 .. MaxInstances }

\* The side of the device of the fully symmetric scenario.
ScenarioSide == 2

\* The devices of the fully symmetric scenario: one switch block and one
\* connection block per channel type at each of the ScenarioSide x
\* ScenarioSide coordinates, in row-major order; every block has the same
\* wiring with one switch type, seen at each coordinate either as it is or
\* rotated.
ScenarioDevices ==
  LET K == ScenarioSide * ScenarioSide
      Views == {ZeroOffset, [ipin |-> 1, opin |-> 0, chan |-> 1]}
  IN  { [n \in 1 .. Len(Blocks) * K |->
           [block |-> Blocks[((n - 1) \div K) + 1],
            sig |-> Rotate(SigA, view[((n - 1) % K) + 1])]] :
        view \in [1 .. K -> Views] }

CanonStart(insts) ==
  /\ instances = insts
  /\ mirror = [i \in DOMAIN insts |-> NoLink]
  /\ rotatable = [i \in DOMAIN insts |-> NoLink]
  /\ offset = [i \in DOMAIN insts |-> ZeroOffset]
  /\ seen = << >>
  /\ scan = 1
  /\ runs = 1
  /\ first_run = << >>

CanonInit == \E insts \in InstanceLists \cup ScenarioDevices : CanonStart(insts)

\* The canonicalizer on a device without instances.
CanonIdle == CanonStart(<< >>)

CanonNext ==
  \/ Canonicalize
  \/ Rerun

(***************************************************************************)
(* The pins of a grid tile: determine_io_grid_pin_side,                    *)
(* get_grid_side_pins and get_grid_num_pins.                               *)
(***************************************************************************)
\* enum e_side, in the order of its values.
e_side == <<"TOP", "RIGHT", "BOTTOM", "LEFT">>
NUM_SIDES == Len(e_side)

\* enum e_pin_type, the types a pin class has.
e_pin_type == {"DRIVER", "RECEIVER"}

DeviceCoordinator(x, y) == [x |-> x, y |-> y]

\* Where a pin sits on its tile.
PinPlaces ==
  {{"TOP"}, {"BOTTOM", "LEFT"}, {"TOP", "RIGHT", "BOTTOM", "LEFT"}}

\* A block type with its pins (t_type_descriptor): every pin is a class of
\* its own; on the sides of its place pin ipin sits at the top at height
\* height - 1, at the bottom at height 0, left and right at height
\* ipin % height.
PinType(t, height, types, places) ==
  [type |-> t,
   height |-> height,
   num_pins |-> Len(types),
   pin_class |-> [ipin \in 0 .. Len(types) - 1 |-> ipin],
   class_inf |-> [class_id \in 0 .. Len(types) - 1 |-> [type |-> types[class_id + 1]]],
   pinloc |-> [h \in 0 .. height - 1 |->
                 [side \in {e_side[k] : k \in DOMAIN e_side} |->
                    [ipin \in 0 .. Len(types) - 1 |->
                       IF /\ side \in places[ipin + 1]
                          /\ h = (CASE side = "TOP" -> height - 1
                                    [] side = "BOTTOM" -> 0
                                    [] OTHER -> ipin % height)
                         THEN 1 ELSE 0]]]]

\* The block types the functions are applied to.
PinTypes ==
  UNION { { PinType(t, height, types, places) :
              t \in {IO_TYPE, FILL_TYPE}, height \in 1 .. MaxHeight,
              types \in [1 .. n -> e_pin_type], places \in [1 .. n -> PinPlaces] } :
          n \in 1 .. MaxPins }

\* A faulty variant: the sides of the top and of the bottom row are swapped.
determine_io_grid_pin_side_facing_out(device_size, grid_coordinator) ==
  IF device_size.y = grid_coordinator.y THEN "TOP"
  ELSE IF device_size.x = grid_coordinator.x THEN "LEFT"
  ELSE IF 0 = grid_coordinator.y THEN "BOTTOM"
  ELSE IF 0 = grid_coordinator.x THEN "RIGHT"
  ELSE "exit"

\* The side of the pins of an I/O tile; "exit" stands for the error message
\* and exit(1).
determine_io_grid_pin_side(device_size, grid_coordinator) ==
  IF device_size.y = grid_coordinator.y THEN "BOTTOM"
  ELSE IF device_size.x = grid_coordinator.x THEN "LEFT"
  ELSE IF 0 = grid_coordinator.y THEN "TOP"
  ELSE IF 0 = grid_coordinator.x THEN "RIGHT"
  ELSE "exit"

\* The pin indexes below n that pass the test, in increasing order.
RECURSIVE pin_list_upto(_, _, _, _, _)
pin_list_upto(cur_grid, pin_type, pin_side, pin_height, n) ==
  IF n = 0 THEN << >>
  ELSE LET ipin == n - 1
           class_id == cur_grid.pin_class[ipin]
           rest == pin_list_upto(cur_grid, pin_type, pin_side, pin_height, n - 1)
       IN  IF /\ 1 = cur_grid.pinloc[pin_height][pin_side][ipin]
              /\ pin_type = cur_grid.class_inf[class_id].type
             THEN Append(rest, ipin)
             ELSE rest

get_grid_side_pins(cur_grid, pin_type, pin_side, pin_height) ==
  pin_list_upto(cur_grid, pin_type, pin_side, pin_height, cur_grid.num_pins)

\* The pins counted on the sides from number side on.
RECURSIVE num_pins_from(_, _, _, _, _)
num_pins_from(cur_grid, pin_type, io_side, side, height) ==
  IF side > NUM_SIDES THEN 0
  ELSE IF (IO_TYPE = cur_grid.type) /\ (e_side[side] # io_side)
    THEN num_pins_from(cur_grid, pin_type, io_side, side + 1, 0)
  ELSE IF height >= cur_grid.height
    THEN num_pins_from(cur_grid, pin_type, io_side, side + 1, 0)
  ELSE Len(get_grid_side_pins(cur_grid, pin_type, e_side[side], height))
         + num_pins_from(cur_grid, pin_type, io_side, side, height + 1)

\* A faulty variant: no side of an I/O tile is skipped.
get_grid_num_pins_all_sides(cur_grid, pin_type, io_side) ==
  num_pins_from([cur_grid EXCEPT !.type = FILL_TYPE], pin_type, io_side, 1, 0)

get_grid_num_pins(cur_grid, pin_type, io_side) ==
  num_pins_from(cur_grid, pin_type, io_side, 1, 0)

\* An outcome of a call on the tile.
PinOutcome(call, pin_type, pin_side, pin_height, value) ==
  [call |-> call, pin_type |-> pin_type, pin_side |-> pin_side,
   pin_height |-> pin_height, value |-> value]

\* The side of an I/O tile is determined before its pins are listed.
DetermineIoGridPinSide ==
  /\ tile.type = IO_TYPE
  /\ tile_io_side = "unset"
  /\ tile_io_side' = determine_io_grid_pin_side(dev_size, tile_coordinator)
  /\ pin_out' = PinOutcome("determine_io_grid_pin_side", "none", "none", 0, tile_io_side')
  /\ UNCHANGED <<dev_size, tile_coordinator, tile>>
  /\ UNCHANGED otherThanPin

\* The sides the pins of the tile are listed on: the determined side of an
\* I/O tile, every side of another tile.
SidesInUse ==
  IF tile.type = IO_TYPE
    THEN {e_side[k] : k \in DOMAIN e_side} \cap {tile_io_side}
    ELSE {e_side[k] : k \in DOMAIN e_side}

GetGridSidePins(pin_type, pin_side, pin_height) ==
  /\ tile_io_side # "exit"
  /\ pin_out' = PinOutcome("get_grid_side_pins", pin_type, pin_side, pin_height,
                           get_grid_side_pins(tile, pin_type, pin_side, pin_height))
  /\ UNCHANGED <<dev_size, tile_coordinator, tile, tile_io_side>>
  /\ UNCHANGED otherThanPin

GetGridNumPins(pin_type, io_side) ==
  /\ tile_io_side # "exit"
  /\ pin_out' = PinOutcome("get_grid_num_pins", pin_type, io_side, 0,
                           get_grid_num_pins(tile, pin_type, io_side))
  /\ UNCHANGED <<dev_size, tile_coordinator, tile, tile_io_side>>
  /\ UNCHANGED otherThanPin

\* The coordinates of the four sides of the I/O ring of the device.
Perimeter ==
  {c \in Coords(MaxNx, MaxNy) :
     (c[1] \in {0, MaxNx + 1}) # (c[2] \in {0, MaxNy + 1})}

PinStart(t, c) ==
  /\ dev_size = DeviceCoordinator(MaxNx + 1, MaxNy + 1)
  /\ tile = t
  /\ tile_coordinator = DeviceCoordinator(c[1], c[2])
  /\ tile_io_side = "unset"
  /\ pin_out = PinOutcome("none", "none", "none", 0, << >>)

\* An I/O tile on the ring or, unsupported, in the interior; another tile
\* in the interior.
PinInit ==
  \E t \in PinTypes, c \in Perimeter \cup {<<1, 1>>} :
    /\ c \in Perimeter => t.type = IO_TYPE
    /\ PinStart(t, c)

PinIdle == PinStart(PinType(EMPTY_TYPE, 1, << >>, << >>), <<0, 0>>)

PinNext ==
  \/ DetermineIoGridPinSide
  \/ \E pin_type \in e_pin_type, pin_side \in SidesInUse,
        pin_height \in 0 .. tile.height - 1 :
       GetGridSidePins(pin_type, pin_side, pin_height)
  \/ \E pin_type \in e_pin_type, io_side \in SidesInUse :
       GetGridNumPins(pin_type, io_side)

(***************************************************************************)
(* The switch boxes and connection boxes of the compact top-level netlist: *)
(* dump_compact_verilog_defined_switch_boxes and                           *)
(* dump_compact_verilog_defined_connection_boxes.                          *)
(***************************************************************************)
\* The coordinates of the GSBs of a range.
GsbCoords(range) == (0 .. range.x - 1) \X (0 .. range.y - 1)

\* The coordinator of the connection box of a GSB, by the convention of the
\* device: that of the switch box, or the next one along the channel.
CbCoordinator(convention, cb_type, c) ==
  IF convention = "same" THEN DeviceCoordinator(c[1], c[2])
  ELSE IF cb_type = "CHANX" THEN DeviceCoordinator(c[1] + 1, c[2])
  ELSE DeviceCoordinator(c[1], c[2] + 1)

\* One GSB of the device (RRGSB).
RRGSB(c, convention, depopulated) ==
  [sb_coordinator |-> DeviceCoordinator(c[1], c[2]),
   cb_coordinator |-> [cb_type \in ChannelTypes |-> CbCoordinator(convention, cb_type, c)],
   cb_exist |-> [cb_type \in ChannelTypes |-> <<cb_type, c>> \notin depopulated]]

\* The unique module of each coordinate: every GSB its own, one for all, or
\* one per column.
UniqueModuleMaps(range) ==
  { [c \in GsbCoords(range) |-> DeviceCoordinator(c[1], c[2])],
    [c \in GsbCoords(range) |-> DeviceCoordinator(0, 0)],
    [c \in GsbCoords(range) |-> DeviceCoordinator(c[1], 0)] }

\* The tables of the connection boxes that exist at a coordinate: all, none,
\* or none at the edge x = 0.
CbExistTables ==
  { [cb_type \in ChannelTypes |-> [c \in Coords(MaxGsb, MaxGsb) |-> TRUE]],
    [cb_type \in ChannelTypes |-> [c \in Coords(MaxGsb, MaxGsb) |-> FALSE]],
    [cb_type \in ChannelTypes |-> [c \in Coords(MaxGsb, MaxGsb) |-> c[1] # 0]] }

\* device_rr_gsb with a range, its GSBs and its unique modules.
DeviceRRGSB(range, convention, depopulated, sb_unique, cb_unique) ==
  [gsb_range |-> range,
   rr_gsb |-> [c \in GsbCoords(range) |-> RRGSB(c, convention, depopulated)],
   sb_unique_module |-> sb_unique,
   cb_unique_module |-> [cb_type \in ChannelTypes |-> cb_unique]]

get_gsb(x, y) == device_rr_gsb.rr_gsb[<<x, y>>]

get_sb_unique_module(coordinator) ==
  LET u == device_rr_gsb.sb_unique_module[<<coordinator.x, coordinator.y>>]
  IN  get_gsb(u.x, u.y)

get_cb_unique_module(cb_type, coordinator) ==
  LET u == device_rr_gsb.cb_unique_module[cb_type][<<coordinator.x, coordinator.y>>]
  IN  get_gsb(u.x, u.y)

\* The names of the modules and instances: the kind and the coordinate of
\* the GSB they are generated from.
gen_sb_verilog_module_name(rr_sb) ==
  <<"sb", rr_sb.sb_coordinator.x, rr_sb.sb_coordinator.y>>

gen_sb_verilog_instance_name(rr_sb) ==
  <<"sb_inst", rr_sb.sb_coordinator.x, rr_sb.sb_coordinator.y>>

gen_cb_verilog_module_name(rr_gsb, cb_type) ==
  <<"cb", cb_type, rr_gsb.cb_coordinator[cb_type].x, rr_gsb.cb_coordinator[cb_type].y>>

gen_cb_verilog_instance_name(rr_gsb, cb_type) ==
  <<"cb_inst", cb_type, rr_gsb.cb_coordinator[cb_type].x, rr_gsb.cb_coordinator[cb_type].y>>

\* The global check that a connection box exists at a coordinate.
is_cb_exist(cb_type, x, y) == cb_exist_table[cb_type][<<x, y>>]

\* A faulty variant: the module named is that of the switch box itself.
defined_one_switch_box_own_module(rr_sb) ==
  [module |-> gen_sb_verilog_module_name(rr_sb),
   instance |-> gen_sb_verilog_instance_name(rr_sb)]

\* The instantiation of one switch box: the module of the unique mirror
\* under the instance name of the switch box.
dump_compact_verilog_defined_one_switch_box(rr_sb) ==
  LET coordinator == rr_sb.sb_coordinator
      unique_mirror == get_sb_unique_module(coordinator)
  IN  [module |-> gen_sb_verilog_module_name(unique_mirror),
       instance |-> gen_sb_verilog_instance_name(rr_sb)]

dump_compact_verilog_defined_one_connection_box(rr_gsb, cb_type) ==
  LET coordinator == rr_gsb.sb_coordinator
      unique_mirror == get_cb_unique_module(cb_type, coordinator)
  IN  [module |-> gen_cb_verilog_module_name(unique_mirror, cb_type),
       instance |-> gen_cb_verilog_instance_name(rr_gsb, cb_type)]

\* A faulty variant: only the GSB is asked.
connection_box_checks_gsb_only(rr_gsb, cb_type) == rr_gsb.cb_exist[cb_type]

\* The two checks before a connection box is instantiated.
connection_box_checks(rr_gsb, cb_type) ==
  /\ is_cb_exist(cb_type, rr_gsb.cb_coordinator[cb_type].x, rr_gsb.cb_coordinator[cb_type].y)
  /\ rr_gsb.cb_exist[cb_type]

\* The instantiations of the connection boxes of one GSB: X before Y.
defined_connection_boxes_of(rr_gsb) ==
  (IF connection_box_checks(rr_gsb, "CHANX")
     THEN << dump_compact_verilog_defined_one_connection_box(rr_gsb, "CHANX") >>
     ELSE << >>)
  \o (IF connection_box_checks(rr_gsb, "CHANY")
        THEN << dump_compact_verilog_defined_one_connection_box(rr_gsb, "CHANY") >>
        ELSE << >>)

\* The position after GSB (x, y): iy is the inner loop.
GsbAdvance(x, y, after) ==
  IF y + 1 < device_rr_gsb.gsb_range.y THEN <<dump_pc, x, y + 1>>
  ELSE IF x + 1 < device_rr_gsb.gsb_range.x THEN <<dump_pc, x + 1, 0>>
  ELSE <<after, 0, 0>>

DumpGoto(n) == dump_pc' = n[1] /\ dump_ix' = n[2] /\ dump_iy' = n[3]

\* One iteration of dump_compact_verilog_defined_switch_boxes.
DumpSwitchBoxStep ==
  /\ dump_pc = "switch_boxes"
  /\ LET rr_sb == get_gsb(dump_ix, dump_iy)
     IN  netlist' = Append(netlist, dump_compact_verilog_defined_one_switch_box(rr_sb))
  /\ DumpGoto(GsbAdvance(dump_ix, dump_iy, "connection_boxes"))
  /\ UNCHANGED <<device_rr_gsb, cb_exist_table>>
  /\ UNCHANGED otherThanDump

\* One iteration of dump_compact_verilog_defined_connection_boxes.
DumpConnectionBoxStep ==
  /\ dump_pc = "connection_boxes"
  /\ LET rr_gsb == get_gsb(dump_ix, dump_iy)
     IN  netlist' = netlist \o defined_connection_boxes_of(rr_gsb)
  /\ DumpGoto(GsbAdvance(dump_ix, dump_iy, "done"))
  /\ UNCHANGED <<device_rr_gsb, cb_exist_table>>
  /\ UNCHANGED otherThanDump

DumpStart(dev, table, p) ==
  /\ device_rr_gsb = dev
  /\ cb_exist_table = table
  /\ netlist = << >>
  /\ dump_pc = p
  /\ dump_ix = 0
  /\ dump_iy = 0

\* The devices: a range of up to MaxGsb x MaxGsb GSBs, at most one
\* connection box depopulated.
DumpInit ==
  \E rx \in 1 .. MaxGsb, ry \in 1 .. MaxGsb, convention \in {"same", "next"},
     table \in CbExistTables :
    LET range == DeviceCoordinator(rx, ry) IN
    \E depopulated \in {{}} \cup {{d} : d \in ChannelTypes \X GsbCoords(range)},
       sb_unique \in UniqueModuleMaps(range), cb_unique \in UniqueModuleMaps(range) :
      DumpStart(DeviceRRGSB(range, convention, depopulated, sb_unique, cb_unique),
                table, "switch_boxes")

DumpIdle ==
  DumpStart(DeviceRRGSB(DeviceCoordinator(0, 0), "same", {}, << >>, << >>),
            [cb_type \in ChannelTypes |-> << >>], "idle")

DumpNext ==
  \/ DumpSwitchBoxStep
  \/ DumpConnectionBoxStep

(***************************************************************************)
(* BasicPort: a port with an lsb and an msb of type size_t.                *)
(***************************************************************************)
\* size_t is modelled SizeBits wide; its values.
SizeModulus == 2 ^ SizeBits
size_t == 0 .. SizeModulus - 1
numeric_limits_max == SizeModulus - 1
numeric_limits_min == 0

\* Default constructor and make_invalid: an invalid port.
make_invalid == [lsb |-> 1, msb |-> 0]

is_valid(p) == ~(p.msb < p.lsb)

get_width(p) ==
  IF is_valid(p) THEN (p.msb + SizeModulus - p.lsb + 1) % SizeModulus ELSE 0

\* set_width(width) and set_width(lsb, msb): the port after the call.
set_width(width) ==
  IF 0 = width THEN make_invalid
  ELSE [lsb |-> 0, msb |-> width - 1]

set_width_lsb_msb(lsb, msb) ==
  IF lsb > msb THEN make_invalid
  ELSE [lsb |-> lsb, msb |-> msb]

expand(p, width) ==
  IF 0 = width THEN p
  ELSE IF 0 = get_width(p) THEN [lsb |-> 0, msb |-> width]
  ELSE [p EXCEPT !.msb = (p.msb + width) % SizeModulus]

\* rotate and counter_rotate: the port after the call and the value returned.
rotate(p, shift_by) ==
  IF (0 = shift_by) \/ (0 = get_width(p)) THEN [port |-> p, ret |-> TRUE]
  ELSE IF numeric_limits_max - p.msb < shift_by THEN [port |-> p, ret |-> FALSE]
  ELSE [port |-> [lsb |-> (p.lsb + shift_by) % SizeModulus,
                  msb |-> (p.msb + shift_by) % SizeModulus],
        ret |-> TRUE]

\* A faulty variant: a port is not rotated down to lsb 0.
counter_rotate_above_zero(p, shift_by) ==
  IF (0 = shift_by) \/ (0 = get_width(p)) THEN [port |-> p, ret |-> TRUE]
  ELSE IF numeric_limits_min + p.lsb <= shift_by THEN [port |-> p, ret |-> FALSE]
  ELSE [port |-> [lsb |-> (p.lsb + SizeModulus - shift_by) % SizeModulus,
                  msb |-> (p.msb + SizeModulus - shift_by) % SizeModulus],
        ret |-> TRUE]

counter_rotate(p, shift_by) ==
  IF (0 = shift_by) \/ (0 = get_width(p)) THEN [port |-> p, ret |-> TRUE]
  ELSE IF numeric_limits_min + p.lsb < shift_by THEN [port |-> p, ret |-> FALSE]
  ELSE [port |-> [lsb |-> (p.lsb + SizeModulus - shift_by) % SizeModulus,
                  msb |-> (p.msb + SizeModulus - shift_by) % SizeModulus],
        ret |-> TRUE]

\* A call on the port: its argument, the port before it and what it returned.
\* The port before a call is kept for expand, rotate and counter_rotate; the
\* other calls do not depend on it and record the invalid port.
\* undoes tells, for a call that follows its successful inverse with the
\* same argument, whether it brought back the port from before the inverse.
PortOutcome(op, arg, before, ret) ==
  [op |-> op, arg |-> arg, before |-> before, ret |-> ret, undoes |-> "none"]

Undoes(inverse, shift_by, after) ==
  IF port_out.op = inverse /\ port_out.ret /\ port_out.arg = shift_by
    THEN (IF after = port_out.before THEN "restored" ELSE "changed")
    ELSE "none"

SetWidth(width) ==
  /\ port' = set_width(width)
  /\ port_out' = PortOutcome("set_width", width, make_invalid, TRUE)
  /\ UNCHANGED otherThanPort

SetWidthLsbMsb(lsb, msb) ==
  /\ port' = set_width_lsb_msb(lsb, msb)
  /\ port_out' = PortOutcome("set_width_lsb_msb", <<lsb, msb>>, make_invalid, TRUE)
  /\ UNCHANGED otherThanPort

SetLsb(lsb) ==
  /\ port' = [port EXCEPT !.lsb = lsb]
  /\ port_out' = PortOutcome("set_lsb", lsb, make_invalid, TRUE)
  /\ UNCHANGED otherThanPort

SetMsb(msb) ==
  /\ port' = [port EXCEPT !.msb = msb]
  /\ port_out' = PortOutcome("set_msb", msb, make_invalid, TRUE)
  /\ UNCHANGED otherThanPort

Reset ==
  /\ port' = make_invalid
  /\ port_out' = PortOutcome("reset", 0, make_invalid, TRUE)
  /\ UNCHANGED otherThanPort

Expand(width) ==
  /\ port' = expand(port, width)
  /\ port_out' = PortOutcome("expand", width, port, TRUE)
  /\ UNCHANGED otherThanPort

RotatePort(shift_by) ==
  /\ port' = rotate(port, shift_by).port
  /\ port_out' = [PortOutcome("rotate", shift_by, port, rotate(port, shift_by).ret)
                    EXCEPT !.undoes = Undoes("counter_rotate", shift_by, port')]
  /\ UNCHANGED otherThanPort

CounterRotatePort(shift_by) ==
  /\ port' = counter_rotate(port, shift_by).port
  /\ port_out' = [PortOutcome("counter_rotate", shift_by, port,
                                counter_rotate(port, shift_by).ret)
                    EXCEPT !.undoes = Undoes("rotate", shift_by, port')]
  /\ UNCHANGED otherThanPort

\* The values at both ends of size_t.
SizeEdges == {0, 1, numeric_limits_max - 1, numeric_limits_max}

\* A port after its default constructor.
PortInit ==
  /\ port = make_invalid
  /\ port_out = PortOutcome("BasicPort", 0, make_invalid, TRUE)

PortNext ==
  \/ \E lsb \in size_t : SetLsb(lsb)
  \/ \E msb \in size_t : SetMsb(msb)
  \/ \E width \in size_t : SetWidth(width)
  \/ \E lsb \in SizeEdges, msb \in SizeEdges : SetWidthLsbMsb(lsb, msb)
  \/ Reset
  \/ \E width \in size_t : Expand(width)
  \/ \E shift_by \in size_t : RotatePort(shift_by)
  \/ \E shift_by \in size_t : CounterRotatePort(shift_by)

(***************************************************************************)
(* vpr_fpga_verilog: bitstream generation and the testbenches.             *)
(***************************************************************************)
\* The options of FPGA_SPICE_Opts the function reads from here on.
ApiFlags == {"gen_bitstream", "print_top_testbench",
             "print_formal_verification_top_netlist",
             "print_autocheck_top_testbench", "print_modelsim_autodeck",
             "print_sdc_analysis", "print_report_timing_tcl"}

FPGA_SPICE_Opts == [ApiFlags -> BOOLEAN]

\* The statements of the function in their order.
ApiSteps == <<"force_bitstream", "generate_bitstream", "top_testbench",
              "formal_verification", "autocheck_top_testbench",
              "modelsim_autodeck", "sdc_analysis", "report_timing",
              "free_sram_orgz_info", "write_include_netlists", "return">>

ApiStepAfter(step) ==
  ApiSteps[(CHOOSE i \in 1..Len(ApiSteps) : ApiSteps[i] = step) + 1]

\* The bitstream generator is left as the caller set it.
force_gen_bitstream_as_given(opts) == opts

\* The bitstream generator is switched on when the top testbench is wanted.
force_gen_bitstream(opts) ==
  IF opts["print_top_testbench"]
    THEN [opts EXCEPT !["gen_bitstream"] = TRUE]
    ELSE opts

\* One statement of the function: the calls it makes if its condition holds.
ApiStep(step, condition, made) ==
  /\ api_pc = step
  /\ api_pc' = ApiStepAfter(step)
  /\ calls' = IF condition THEN calls \o made ELSE calls
  /\ UNCHANGED <<caller_setup, vpr_setup>>
  /\ UNCHANGED otherThanApi

ForceBitstream ==
  /\ api_pc = "force_bitstream"
  /\ vpr_setup' = force_gen_bitstream(vpr_setup)
  /\ api_pc' = ApiStepAfter("force_bitstream")
  /\ UNCHANGED <<caller_setup, calls>>
  /\ UNCHANGED otherThanApi

GenerateBitstream ==
  ApiStep("generate_bitstream", vpr_setup["gen_bitstream"],
          <<"vpr_fpga_generate_bitstream">>)

TopTestbench ==
  ApiStep("top_testbench", vpr_setup["print_top_testbench"],
          <<"dump_verilog_top_testbench">>)

FormalVerification ==
  ApiStep("formal_verification", vpr_setup["print_formal_verification_top_netlist"],
          <<"dump_verilog_formal_verification_top_netlist",
            "write_formality_script", "dump_verilog_random_top_testbench">>)

AutocheckTopTestbench ==
  ApiStep("autocheck_top_testbench", vpr_setup["print_autocheck_top_testbench"],
          <<"dump_verilog_autocheck_top_testbench">>)

ModelsimAutodeck ==
  ApiStep("modelsim_autodeck", vpr_setup["print_modelsim_autodeck"],
          <<"dump_verilog_modelsim_autodeck">>)

SdcAnalysis ==
  ApiStep("sdc_analysis", vpr_setup["print_sdc_analysis"],
          <<"verilog_generate_sdc_analysis">>)

ReportTiming ==
  ApiStep("report_timing", vpr_setup["print_report_timing_tcl"],
          <<"verilog_generate_report_timing">>)

FreeSramOrgzInfo ==
  ApiStep("free_sram_orgz_info",
          \/ vpr_setup["gen_bitstream"]
          \/ vpr_setup["print_top_testbench"]
          \/ vpr_setup["print_autocheck_top_testbench"]
          \/ vpr_setup["print_formal_verification_top_netlist"],
          <<"free_sram_orgz_info">>)

WriteIncludeNetlists ==
  ApiStep("write_include_netlists", TRUE, <<"write_include_netlists">>)

ApiStart(opts) ==
  /\ caller_setup = opts
  /\ vpr_setup = opts
  /\ api_pc = "force_bitstream"
  /\ calls = << >>

ApiInit == \E opts \in FPGA_SPICE_Opts : ApiStart(opts)

\* The function has not been called.
ApiIdle ==
  /\ caller_setup = [f \in ApiFlags |-> FALSE]
  /\ vpr_setup = [f \in ApiFlags |-> FALSE]
  /\ api_pc = "return"
  /\ calls = << >>

ApiNext ==
  \/ ForceBitstream
  \/ GenerateBitstream
  \/ TopTestbench
  \/ FormalVerification
  \/ AutocheckTopTestbench
  \/ ModelsimAutodeck
  \/ SdcAnalysis
  \/ ReportTiming
  \/ FreeSramOrgzInfo
  \/ WriteIncludeNetlists

(***************************************************************************)
(* dump_compact_verilog_one_physical_block: the netlist of one block type. *)
(***************************************************************************)
\* The loop that dumps the submodule of every instance, at every iz.
RECURSIVE dump_submodules_of_each_instance(_, _, _, _)
dump_submodules_of_each_instance(capacity, iz, verilog_module_dumped, dumped) ==
  IF ~(iz < capacity) THEN dumped
  ELSE dump_submodules_of_each_instance(capacity, iz + 1, TRUE, Append(dumped, iz))

\* The loop that dumps the submodules: the iz whose submodule body is written.
RECURSIVE dump_submodules(_, _, _, _)
dump_submodules(capacity, iz, verilog_module_dumped, dumped) ==
  IF ~(iz < capacity) THEN dumped
  ELSE IF verilog_module_dumped
    THEN dump_submodules(capacity, iz + 1, verilog_module_dumped, dumped)
    ELSE dump_submodules(capacity, iz + 1, TRUE, Append(dumped, iz))

\* The instantiation of sub block iz with its slices of the I/O pads and of
\* the configuration bits.
SubBlock(td, iz, temp_conf_bits_lsb, temp_conf_bits_msb, temp_iopad_lsb, temp_iopad_msb) ==
  [iz |-> iz,
   iopad |-> <<temp_iopad_lsb, temp_iopad_msb>>,
   reserved_sram_ports |-> 0 < td.physical_mode_num_reserved_conf_bits,
   conf_bits |-> <<temp_conf_bits_lsb, temp_conf_bits_msb>>,
   sram_ports |-> 0 < (temp_conf_bits_msb - temp_conf_bits_lsb),
   formal_verification_sram_ports |-> 0 < (temp_conf_bits_msb - temp_conf_bits_lsb)]

\* The loop that quotes the sub blocks, with every slice taken from the lsb
\* the loop started with.
RECURSIVE quote_sub_blocks_at_one_lsb(_, _, _, _, _, _)
quote_sub_blocks_at_one_lsb(td, iz, temp_conf_bits_lsb, temp_conf_bits_msb, temp_iopad_lsb, quoted) ==
  IF ~(iz < td.capacity)
    THEN [quoted |-> quoted, temp_conf_bits_msb |-> temp_conf_bits_msb]
    ELSE LET msb == temp_conf_bits_lsb + td.physical_mode_num_conf_bits
             iopad_msb == temp_iopad_lsb + td.physical_mode_num_iopads IN
         quote_sub_blocks_at_one_lsb(td, iz + 1, temp_conf_bits_lsb, msb, temp_iopad_lsb,
           Append(quoted, SubBlock(td, iz, temp_conf_bits_lsb, msb, temp_iopad_lsb, iopad_msb)))

\* The loop that quotes the sub blocks: the instantiations it writes and the
\* temp_conf_bits_msb it ends with.
RECURSIVE quote_sub_blocks(_, _, _, _, _, _)
quote_sub_blocks(td, iz, temp_conf_bits_lsb, temp_conf_bits_msb, temp_iopad_lsb, quoted) ==
  IF ~(iz < td.capacity)
    THEN [quoted |-> quoted, temp_conf_bits_msb |-> temp_conf_bits_msb]
    ELSE LET msb == temp_conf_bits_lsb + td.physical_mode_num_conf_bits
             iopad_msb == temp_iopad_lsb + td.physical_mode_num_iopads IN
         quote_sub_blocks(td, iz + 1, msb, msb, iopad_msb,
           Append(quoted, SubBlock(td, iz, temp_conf_bits_lsb, msb, temp_iopad_lsb, iopad_msb)))

\* The netlist written for one block type: the submodule bodies, the ports
\* the top module declares, the sub blocks it quotes and the final check.
dump_compact_verilog_one_physical_block(itype, phy_block_type, border_side) ==
  LET td == phy_block_type.td
      temp_conf_bits_msb == td.capacity * td.physical_mode_num_conf_bits
      loop == quote_sub_blocks(td, 0, 0, temp_conf_bits_msb, 0, << >>) IN
  [itype |-> itype,
   border_side |-> border_side,
   submodules |-> dump_submodules(td.capacity, 0, FALSE, << >>),
   iopad |-> <<0, td.capacity * td.physical_mode_num_iopads>>,
   reserved_sram_ports |-> 0 < td.physical_mode_num_reserved_conf_bits,
   sram_ports |-> 0 < temp_conf_bits_msb,
   formal_verification_sram_ports |-> 0 < temp_conf_bits_msb,
   sub_blocks |-> loop.quoted,
   assert_conf_bits |->
     loop.temp_conf_bits_msb = td.capacity * td.physical_mode_num_conf_bits]

(***************************************************************************)
(* dump_compact_verilog_logic_blocks                                       *)
(***************************************************************************)
PhysicalBlockType(kind, td) == [kind |-> kind, td |-> td]

\* The type lists the function is run on: the empty type, the I/O type, the
\* CLB, and no or one heterogeneous block behind them.
LbArchitectures ==
  { << PhysicalBlockType(EMPTY_TYPE, TypeDescriptor(0, 0, 0, 0, 1)),
       PhysicalBlockType(IO_TYPE, TypeDescriptor(cap, bio, 0, pads, 1)),
       PhysicalBlockType(FILL_TYPE, TypeDescriptor(ccap, bclb, 0, 0, 1)) >> \o het :
      cap \in 0 .. MaxCapacity, bio \in 0 .. MaxConfBits, pads \in 0 .. 1, ccap \in 0 .. MaxCapacity, bclb \in 0 .. MaxConfBits,
      het \in {<< >>} \cup
              { << PhysicalBlockType(HETERO_TYPE, TypeDescriptor(1, bhet, 0, 0, 2)) >> :
                  bhet \in 0 .. MaxConfBits } }

num_types == Len(lb_types)

Counters(cnt, mem_bit) == [spice_model_cnt |-> cnt, num_mem_bit |-> mem_bit]

\* The grid-index update has not run: no counters it started from.
NotRun == << >>

snapshot_spice_model_counter == lb_counters.spice_model_cnt

snapshot_sram_orgz_info == lb_counters.num_mem_bit

set_spice_model_counter(counters, stamped) ==
  [counters EXCEPT !.spice_model_cnt = stamped]

\* The copy that leaves the destination as it is.
copy_sram_orgz_info_kept(counters, stamped) == counters

copy_sram_orgz_info(counters, stamped) ==
  [counters EXCEPT !.num_mem_bit = stamped]

LbFrame == UNCHANGED <<lb_types, lb_entry>>

LbSnapshotFrame == UNCHANGED <<stamped_spice_model_cnt, stamped_sram_orgz_info>>

\* The next iteration of the loop over the types, or the statement behind it.
LbNextType ==
  /\ lb_iside' = 0
  /\ IF lb_itype + 1 < num_types
       THEN lb_pc' = "types" /\ lb_itype' = lb_itype + 1
       ELSE lb_pc' = "header_file" /\ lb_itype' = lb_itype + 1

\* One call of dump_compact_verilog_one_physical_block: the netlist is
\* written, and dumping the submodule body, when there is one, changes the
\* counters by what the body holds.
LbDumpOne(border_side) ==
  LET file == dump_compact_verilog_one_physical_block(
                lb_itype, lb_types[lb_itype + 1], border_side) IN
  /\ lb_files' = Append(lb_files, file)
  /\ \E d_cnt \in 0 .. 1, d_mem \in 0 .. 1 :
       /\ file.submodules = << >> => (d_cnt = 0 /\ d_mem = 0)
       /\ lb_counters' = Counters(lb_counters.spice_model_cnt + d_cnt,
                                  lb_counters.num_mem_bit + d_mem)
       /\ lb_dirty' = (lb_dirty \/ d_cnt > 0 \/ d_mem > 0)

SnapshotSpiceModelCounter ==
  /\ lb_pc = "snapshot_spice_model_counter"
  /\ stamped_spice_model_cnt' = snapshot_spice_model_counter
  /\ lb_pc' = "snapshot_sram_orgz_info"
  /\ UNCHANGED <<lb_itype, lb_iside, lb_files, lb_counters, stamped_sram_orgz_info,
                 lb_dirty, lb_update_from>>
  /\ LbFrame
  /\ UNCHANGED otherThanLb

SnapshotSramOrgzInfo ==
  /\ lb_pc = "snapshot_sram_orgz_info"
  /\ stamped_sram_orgz_info' = snapshot_sram_orgz_info
  /\ lb_pc' = IF 0 < num_types THEN "types" ELSE "header_file"
  /\ UNCHANGED <<lb_itype, lb_iside, lb_files, lb_counters, stamped_spice_model_cnt,
                 lb_dirty, lb_update_from>>
  /\ LbFrame
  /\ UNCHANGED otherThanLb

BypassEmptyType ==
  /\ lb_pc = "types"
  /\ lb_types[lb_itype + 1].kind = EMPTY_TYPE
  /\ LbNextType
  /\ UNCHANGED <<lb_files, lb_counters, lb_dirty, lb_update_from>>
  /\ LbSnapshotFrame /\ LbFrame
  /\ UNCHANGED otherThanLb

DumpIoSide ==
  /\ lb_pc = "types"
  /\ lb_types[lb_itype + 1].kind = IO_TYPE
  /\ LbDumpOne(lb_iside)
  /\ IF lb_iside + 1 < NUM_SIDES
       THEN lb_iside' = lb_iside + 1 /\ UNCHANGED <<lb_pc, lb_itype>>
       ELSE LbNextType
  /\ UNCHANGED lb_update_from
  /\ LbSnapshotFrame /\ LbFrame
  /\ UNCHANGED otherThanLb

DumpFillType ==
  /\ lb_pc = "types"
  /\ lb_types[lb_itype + 1].kind = FILL_TYPE
  /\ LbDumpOne(-1)
  /\ LbNextType
  /\ UNCHANGED lb_update_from
  /\ LbSnapshotFrame /\ LbFrame
  /\ UNCHANGED otherThanLb

DumpHeterogeneousType ==
  /\ lb_pc = "types"
  /\ lb_types[lb_itype + 1].kind \notin {EMPTY_TYPE, IO_TYPE, FILL_TYPE}
  /\ LbDumpOne(-1)
  /\ LbNextType
  /\ UNCHANGED lb_update_from
  /\ LbSnapshotFrame /\ LbFrame
  /\ UNCHANGED otherThanLb

DumpSubcktHeaderFile ==
  /\ lb_pc = "header_file"
  /\ lb_pc' = "set_spice_model_counter"
  /\ UNCHANGED <<lb_itype, lb_iside, lb_files, lb_counters, lb_dirty, lb_update_from>>
  /\ LbSnapshotFrame /\ LbFrame
  /\ UNCHANGED otherThanLb

RecoverSpiceModelCounter ==
  /\ lb_pc = "set_spice_model_counter"
  /\ lb_counters' = set_spice_model_counter(lb_counters, stamped_spice_model_cnt)
  /\ lb_pc' = "copy_sram_orgz_info"
  /\ UNCHANGED <<lb_itype, lb_iside, lb_files, lb_dirty, lb_update_from>>
  /\ LbSnapshotFrame /\ LbFrame
  /\ UNCHANGED otherThanLb

RestoreSramOrgzInfo ==
  /\ lb_pc = "copy_sram_orgz_info"
  /\ lb_counters' = copy_sram_orgz_info(lb_counters, stamped_sram_orgz_info)
  /\ lb_pc' = "update_grid"
  /\ UNCHANGED <<lb_itype, lb_iside, lb_files, lb_dirty, lb_update_from>>
  /\ LbSnapshotFrame /\ LbFrame
  /\ UNCHANGED otherThanLb

\* The call of compact_verilog_update_grid_spice_model_and_sram_orgz_info:
\* the counters it starts from are recorded.
UpdateGridIndex ==
  /\ lb_pc = "update_grid"
  /\ lb_update_from' = <<lb_counters>>
  /\ lb_pc' = "free"
  /\ UNCHANGED <<lb_itype, lb_iside, lb_files, lb_counters, lb_dirty>>
  /\ LbSnapshotFrame /\ LbFrame
  /\ UNCHANGED otherThanLb

FreeSnapshots ==
  /\ lb_pc = "free"
  /\ lb_pc' = "return"
  /\ UNCHANGED <<lb_itype, lb_iside, lb_files, lb_counters, lb_dirty, lb_update_from>>
  /\ LbSnapshotFrame /\ LbFrame
  /\ UNCHANGED otherThanLb

LbStart(types, counters, at) ==
  /\ lb_types = types
  /\ lb_pc = at
  /\ lb_itype = 0 /\ lb_iside = 0
  /\ lb_files = << >>
  /\ lb_counters = counters
  /\ stamped_spice_model_cnt = 0
  /\ stamped_sram_orgz_info = 0
  /\ lb_entry = counters
  /\ lb_dirty = FALSE
  /\ lb_update_from = NotRun

LbInit ==
  \E types \in LbArchitectures, counters \in {Counters(0, 3), Counters(3, 0)} :
    LbStart(types, counters, "snapshot_spice_model_counter")

\* The function has not been called.
LbIdle == LbStart(<< >>, Counters(0, 0), "return")

LbNext ==
  \/ SnapshotSpiceModelCounter
  \/ SnapshotSramOrgzInfo
  \/ BypassEmptyType
  \/ DumpIoSide
  \/ DumpFillType
  \/ DumpHeterogeneousType
  \/ DumpSubcktHeaderFile
  \/ RecoverSpiceModelCounter
  \/ RestoreSramOrgzInfo
  \/ UpdateGridIndex
  \/ FreeSnapshots

(***************************************************************************)
(* ProcessSegments: the switches of the segments of the architecture file. *)
(***************************************************************************)
UNI_DIRECTIONAL == "UNI_DIRECTIONAL"
BI_DIRECTIONAL == "BI_DIRECTIONAL"

\* The names a switch or a reference to one can carry.
SwitchNames == {"a", "b"}
ReferredNames == SwitchNames \cup {"c"}

SwitchLists == UNION { [1 .. n -> SwitchNames] : n \in 0 .. MaxSwitches }

\* A segment element: its type attribute and the names in its mux,
\* wire_switch and opin_switch elements.
SegmentNode(type, mux, wire, opin) ==
  [type |-> type, mux |-> mux, wire_switch |-> wire, opin_switch |-> opin]

NoName == ""

SegmentNodes ==
  { SegmentNode("unidir", m, NoName, NoName) : m \in ReferredNames } \cup
  { SegmentNode("bidir", NoName, w, o) : w \in ReferredNames, o \in ReferredNames } \cup
  { SegmentNode("other", NoName, NoName, NoName) }

NumSwitches == Len(Switches)

\* The loop that matches a name: the first j with that name, or NumSwitches.
RECURSIVE match_names(_, _)
match_names(tmp, j) ==
  IF j < NumSwitches /\ ~(tmp = Switches[j + 1])
    THEN match_names(tmp, j + 1)
    ELSE j

\* No check of the index the loop ended at.
not_a_valid_name_never(j) == FALSE

not_a_valid_name(j) == j >= NumSwitches

s_segment_inf(directionality, wire_switch, opin_switch) ==
  [directionality |-> directionality,
   wire_switch |-> wire_switch,
   opin_switch |-> opin_switch]

\* The end of one iteration of the loop over the segments.
SegLoaded(seg) ==
  /\ Segs' = Append(Segs, seg)
  /\ seg_pc' = IF Len(Segs) + 1 < NumSegs THEN "load" ELSE "return"

SegExit == seg_pc' = "exit" /\ UNCHANGED Segs

LoadUnidirSegment(node) ==
  /\ seg_pc = "load"
  /\ node.type = "unidir"
  /\ seg_node' = node
  /\ LET j == match_names(node.mux, 0) IN
       IF not_a_valid_name(j)
         THEN SegExit
         ELSE SegLoaded(s_segment_inf(UNI_DIRECTIONAL, j, j))
  /\ UNCHANGED <<Switches, NumSegs>>
  /\ UNCHANGED otherThanSeg

LoadBidirSegment(node) ==
  /\ seg_pc = "load"
  /\ node.type = "bidir"
  /\ seg_node' = node
  /\ LET wire == match_names(node.wire_switch, 0)
         opin == match_names(node.opin_switch, 0) IN
       IF not_a_valid_name(wire) \/ not_a_valid_name(opin)
         THEN SegExit
         ELSE SegLoaded(s_segment_inf(BI_DIRECTIONAL, wire, opin))
  /\ UNCHANGED <<Switches, NumSegs>>
  /\ UNCHANGED otherThanSeg

InvalidSwitchType(node) ==
  /\ seg_pc = "load"
  /\ node.type \notin {"unidir", "bidir"}
  /\ seg_node' = node
  /\ SegExit
  /\ UNCHANGED <<Switches, NumSegs>>
  /\ UNCHANGED otherThanSeg

SegStart(switches, segments) ==
  /\ Switches = switches
  /\ NumSegs = segments
  /\ Segs = << >>
  /\ seg_node = SegmentNode("other", NoName, NoName, NoName)
  /\ seg_pc = IF 0 < segments THEN "load" ELSE "return"

SegInit == \E switches \in SwitchLists, segments \in 0 .. MaxSegs : SegStart(switches, segments)

\* The function has not been called.
SegIdle == SegStart(<< >>, 0)

SegNext ==
  \E node \in SegmentNodes :
    \/ LoadUnidirSegment(node)
    \/ LoadBidirSegment(node)
    \/ InvalidSwitchType(node)

(***************************************************************************)
(* dump_compact_verilog_defined_one_grid: the instantiation of one grid.   *)
(***************************************************************************)
GridTile(phy_block_type, tile_offset, border_side) ==
  [type |-> phy_block_type, offset |-> tile_offset, border_side |-> border_side]

\* The tiles the function is called on: an I/O tile on one of the sides, a
\* CLB, either tile of a heterogeneous block, an empty tile.
GridTiles ==
  { GridTile(PhysicalBlockType(EMPTY_TYPE, TypeDescriptor(0, 0, 0, 0, 1)), 0, -1) } \cup
  { GridTile(PhysicalBlockType(IO_TYPE, TypeDescriptor(cap, bits, 0, 1, 1)), 0, side) :
      cap \in 0 .. MaxCapacity, bits \in 0 .. MaxConfBits, side \in 0 .. NUM_SIDES - 1 } \cup
  { GridTile(PhysicalBlockType(FILL_TYPE, TypeDescriptor(cap, bits, 0, 0, 1)), 0, -1) :
      cap \in 0 .. MaxCapacity, bits \in 0 .. MaxConfBits } \cup
  { GridTile(PhysicalBlockType(HETERO_TYPE, TypeDescriptor(1, bits, 0, 0, 2)), off, -1) :
      bits \in 0 .. MaxConfBits, off \in 0 .. 1 }

\* The entries of the tile the grid-index update leaves in sram_orgz_info
\* when it reaches the tile with cur_num_conf_bits memory bits counted.
GridConfBits(td, cur_num_conf_bits) ==
  [grid_reserved_conf_bits |-> td.physical_mode_num_reserved_conf_bits,
   grid_conf_bits_lsb |-> cur_num_conf_bits,
   grid_conf_bits_msb |->
     cur_num_conf_bits + td.capacity * td.physical_mode_num_conf_bits]

\* What the function writes: nothing for an empty tile or a tile that is not
\* the first of its block, else the instantiation with its port connections.
dump_compact_verilog_defined_one_grid(grid_tile, info) ==
  IF grid_tile.type.kind = EMPTY_TYPE \/ 0 # grid_tile.offset
    THEN << >>
    ELSE << [border_side |-> grid_tile.border_side,
             reserved_sram_ports |-> 0 < info.grid_reserved_conf_bits,
             sram_local_ports |->
               0 < (info.grid_conf_bits_msb - info.grid_conf_bits_lsb),
             formal_verification_sram_ports |->
               0 < (info.grid_conf_bits_msb - 1 - info.grid_conf_bits_lsb)] >>

DumpDefinedOneGrid ==
  /\ dg_pc = "call"
  /\ dg_out' = dump_compact_verilog_defined_one_grid(dg_tile, dg_sram_orgz_info)
  /\ dg_pc' = "return"
  /\ UNCHANGED <<dg_tile, dg_sram_orgz_info>>
  /\ UNCHANGED otherThanDg

DgStart(grid_tile, cur_num_conf_bits, at) ==
  /\ dg_tile = grid_tile
  /\ dg_sram_orgz_info = GridConfBits(grid_tile.type.td, cur_num_conf_bits)
  /\ dg_pc = at
  /\ dg_out = << >>

DgInit ==
  \E grid_tile \in GridTiles, cur_num_conf_bits \in 0 .. MaxCapacity * MaxConfBits :
    DgStart(grid_tile, cur_num_conf_bits, "call")

\* The function has not been called.
DgIdle ==
  DgStart(GridTile(PhysicalBlockType(EMPTY_TYPE, TypeDescriptor(0, 0, 0, 0, 1)), 0, -1),
          0, "return")

DgNext == DumpDefinedOneGrid

\* The grid pass before it is entered, on a device without tiles.
GridIdle ==
  /\ nx = 0 /\ ny = 0
  /\ type_descriptors = CHOOSE a \in Architectures : TRUE
  /\ grid = GridOf(0, 0, << >>, FALSE)
  /\ num_mem_bit = 0 /\ num_bl = 0 /\ num_wl = 0
  /\ spice_model = SpiceModels(0, 0, 0)
  /\ grid_reserved_conf_bits = [c \in Coords(0, 0) |-> 0]
  /\ grid_conf_bits_lsb = [c \in Coords(0, 0) |-> 0]
  /\ grid_conf_bits_msb = [c \in Coords(0, 0) |-> 0]
  /\ pc = "idle" /\ ix = 0 /\ iy = 0
  /\ entry_mem_bit = 0
  /\ visited = << >>

\* The parts of the program a specification leaves alone.
OthersIdle == PinIdle /\ DumpIdle /\ PortInit /\ ApiIdle /\ LbIdle /\ SegIdle /\ DgIdle

Init == GridInit /\ GraphInit /\ CanonIdle /\ OthersIdle
Next == GridNext
Spec == Init /\ [][Next]_vars

GraphSpecInit == GridIdle /\ GraphInit /\ CanonIdle /\ OthersIdle
GraphSpec == GraphSpecInit /\ [][GraphNext]_vars

NodeSpec == GraphSpecInit /\ [][NodeNext]_vars

CanonSpecInit == GridIdle /\ GraphInit /\ CanonInit /\ OthersIdle
CanonSpec == CanonSpecInit /\ [][CanonNext]_vars

PinSpecInit == GridIdle /\ GraphInit /\ CanonIdle /\ PinInit /\ DumpIdle /\ PortInit /\ ApiIdle /\ LbIdle /\ SegIdle /\ DgIdle
PinSpec == PinSpecInit /\ [][PinNext]_vars

DumpSpecInit == GridIdle /\ GraphInit /\ CanonIdle /\ PinIdle /\ DumpInit /\ PortInit /\ ApiIdle /\ LbIdle /\ SegIdle /\ DgIdle
DumpSpec == DumpSpecInit /\ [][DumpNext]_vars

PortSpec == GraphSpecInit /\ [][PortNext]_vars

ApiSpecInit == GridIdle /\ GraphInit /\ CanonIdle /\ PinIdle /\ DumpIdle /\ PortInit /\ ApiInit /\ LbIdle /\ SegIdle /\ DgIdle
ApiSpec == ApiSpecInit /\ [][ApiNext]_vars

LbSpecInit == GridIdle /\ GraphInit /\ CanonIdle /\ PinIdle /\ DumpIdle /\ PortInit /\ ApiIdle /\ LbInit /\ SegIdle /\ DgIdle
LbSpec == LbSpecInit /\ [][LbNext]_vars

SegSpecInit == GridIdle /\ GraphInit /\ CanonIdle /\ PinIdle /\ DumpIdle /\ PortInit /\ ApiIdle /\ LbIdle /\ SegInit /\ DgIdle
SegSpec == SegSpecInit /\ [][SegNext]_vars

DgSpecInit == GridIdle /\ GraphInit /\ CanonIdle /\ PinIdle /\ DumpIdle /\ PortInit /\ ApiIdle /\ LbIdle /\ SegIdle /\ DgInit
DgSpec == DgSpecInit /\ [][DgNext]_vars

(***************************************************************************)
(* Properties of the configuration-bit assignment pass.                    *)
(***************************************************************************)
\* The width of the range a tile is meant to receive.
TileConfBits(c) ==
  type_descriptors[grid[c].type].capacity
    * type_descriptors[grid[c].type].physical_mode_num_conf_bits

\* C1: the ranges of the visited tiles, taken in visiting order, are
\* contiguous and do not overlap: each lsb is the previous msb (the first is
\* the counter at entry), each msb is lsb + capacity * conf bits, no tile is
\* visited twice, and the memory-bit counter is the msb of the last tile, so
\* that the ranges cover [entry, total) without a gap.
C1_RangesContiguous ==
  /\ \A i \in 1 .. Len(visited) :
       /\ grid_conf_bits_lsb[visited[i]] =
            (IF i = 1 THEN entry_mem_bit ELSE grid_conf_bits_msb[visited[i - 1]])
       /\ grid_conf_bits_msb[visited[i]] =
            grid_conf_bits_lsb[visited[i]] + TileConfBits(visited[i])
       /\ \A j \in 1 .. Len(visited) :
            i < j => /\ visited[i] # visited[j]
                     /\ grid_conf_bits_msb[visited[i]] <= grid_conf_bits_lsb[visited[j]]
  /\ num_mem_bit =
       (IF visited = << >> THEN entry_mem_bit
        ELSE grid_conf_bits_msb[visited[Len(visited)]])

\* A full pass over a 2 x 2 device that starts at bit 0 and hands out ranges
\* of different widths, some of them empty.
C1_Witness ==
  /\ pc = "done"
  /\ nx = 2 /\ ny = 2
  /\ entry_mem_bit = 0
  /\ num_mem_bit >= 10
  /\ \E c \in DOMAIN grid : c \in {visited[i] : i \in 1 .. Len(visited)}
                            /\ TileConfBits(c) = 0

\* The place of a tile in the traversal: interior, then top, right, bottom,
\* left; inside each, by x and then by y.
SideRank(c) ==
  IF c[1] \in 1 .. nx /\ c[2] \in 1 .. ny THEN 0
  ELSE IF c[2] = ny + 1 THEN 1
  ELSE IF c[1] = nx + 1 THEN 2
  ELSE IF c[2] = 0 THEN 3
  ELSE 4

EarlierInOrder(a, b) ==
  \/ SideRank(a) < SideRank(b)
  \/ /\ SideRank(a) = SideRank(b)
     /\ (a[1] < b[1] \/ (a[1] = b[1] /\ a[2] < b[2]))

\* The tiles the traversal gives a range: the interior tiles that are not
\* empty and have offset 0, and the four sides of the I/O ring.
TilesToVisit ==
  { c \in DOMAIN grid :
      \/ /\ c[1] \in 1 .. nx /\ c[2] \in 1 .. ny
         /\ grid[c].type # EMPTY_TYPE /\ grid[c].offset = 0
      \/ /\ c[1] \in 1 .. nx /\ c[2] \in {0, ny + 1}
      \/ /\ c[1] \in {0, nx + 1} /\ c[2] \in 1 .. ny }

IncomingEdges(id) ==
  { e \in UNION { {<<s, i>> : i \in DOMAIN nodes[s].edges} : s \in DOMAIN nodes } :
      nodes[e[1]].edges[e[2]][1] = id }

\* C3: after any sequence of add_one_edge_for_two_rr_nodes and
\* add_edges_for_two_rr_nodes calls, the fan_in of every node is the number of
\* edges of the whole graph whose target it is.
C3_FanInCountsIncoming ==
  \A id \in 0 .. num_rr_nodes(nodes) - 1 :
    rr_node(nodes, id).fan_in = Cardinality(IncomingEdges(id))

\* A node that two different sources point at, after a batch call that found
\* its whole batch in the edge list.
C3_Witness ==
  /\ last.op = "add_edges" /\ last.status = "Ok" /\ ~last.changed
  /\ \E id \in 0 .. num_rr_nodes(nodes) - 1 :
       /\ rr_node(nodes, id).fan_in = 2
       /\ \E e, f \in IncomingEdges(id) : e[1] # f[1]

\* C4: the edge list of a node never holds two edges with the same target,
\* and an add_edge call made a second time with the same arguments gives the
\* graph the first call gave.
C4_NoDuplicateTargets ==
  /\ \A n \in DOMAIN nodes :
       \A i, j \in DOMAIN nodes[n].edges :
         nodes[n].edges[i][1] = nodes[n].edges[j][1] => i = j
  /\ \A src \in NodeIdInputs, des \in NodeIdInputs, sw \in SwitchIds :
       LET once == add_one_edge_for_two_rr_nodes(nodes, src, des, sw) IN
       add_one_edge_for_two_rr_nodes(once, src, des, sw) = once

\* C5: add_edge with a source or a target that is not an allocated node
\* fails on its range assertion, the OutOfRange failure, and leaves the
\* graph unchanged.
C5_OutOfRangeUnchanged ==
  /\ \A src \in NodeIdInputs, des \in NodeIdInputs, sw \in SwitchIds :
       (src \notin 0 .. num_rr_nodes(nodes) - 1 \/ des \notin 0 .. num_rr_nodes(nodes) - 1)
         => /\ ~add_one_edge_asserts(nodes, src, des)
            /\ add_one_edge_for_two_rr_nodes(nodes, src, des, sw) = nodes
  /\ (last.op = "add_one_edge" /\ last.status = "Aborted") => ~last.changed

\* A refused add_edge call on a graph that holds nodes and edges.
C5_Witness ==
  /\ last.op = "add_one_edge" /\ last.status = "Aborted"
  /\ num_rr_nodes(nodes) = MaxNodes
  /\ EdgeCount(nodes) >= 1

\* C6: a batch call that returns leaves every node with the set of targets
\* and the fan_in that add_edge, applied to the elements of the batch one
\* after the other, would have left; the stored order is not compared.
C6_BulkAsSequence ==
  (last.op = "add_edges" /\ last.status = "Ok") => last.ref.as_one_by_one

(***************************************************************************)
(* Properties of the node store and of the track functions.                *)
(***************************************************************************)
\* The ids of the stored channel nodes.
ChannelNodes ==
  { id \in 0 .. num_rr_nodes(nodes) - 1 : rr_node(nodes, id).type \in ChannelTypes }

\* C7: allocation is append-only: the ids allocate has returned are distinct,
\* each is still the id of the node that was allocated with it, one id is
\* consumed for each accepted allocation and none for a refused one, and
\* inverted bounds for a channel node are refused with InvalidBounds, so that
\* no stored channel node has them.
C7_AllocationAppendOnly ==
  /\ \A i, j \in DOMAIN alloc_log : alloc_log[i].id = alloc_log[j].id => i = j
  /\ \A i \in DOMAIN alloc_log :
       /\ InRange(nodes, alloc_log[i].id)
       /\ rr_node(nodes, alloc_log[i].id).type = alloc_log[i].type
       /\ BoundsOf(rr_node(nodes, alloc_log[i].id)) = alloc_log[i].bounds
  /\ num_rr_nodes(nodes) = Len(alloc_log)
  /\ \A id \in ChannelNodes : ~Inverted(BoundsOf(rr_node(nodes, id)))
  /\ \A c \in ChanXInputs \cup ChanYInputs, type \in ChannelTypes :
       Inverted(c.bounds) => InvalidBounds(type, c.bounds)
  /\ last.status = "InvalidBounds" => (last.op = "allocate" /\ ~last.changed)

\* A refused allocation after two accepted ones of different types, one of
\* them a channel node.
C7_Witness ==
  /\ last.op = "allocate" /\ last.status = "InvalidBounds"
  /\ num_rr_nodes(nodes) = 2
  /\ ChannelNodes # {}
  /\ nodes[1].type # nodes[2].type

\* C8: a channel node with direction Increasing starts at (xlow, ylow), ends
\* at (xhigh, yhigh) and has the last of its track ids at its end; one with
\* direction Decreasing starts at (xhigh, yhigh), ends at (xlow, ylow) and has
\* the first of its track ids at its end; and so a call of the track functions
\* has answered.
C8_StartEndConvention ==
  /\ \A id \in ChannelNodes :
       LET c == rr_node(nodes, id) IN
       /\ c.direction = "INC_DIRECTION" =>
            /\ track_rr_node_asserts(c)
            /\ get_track_rr_node_start_coordinator(c) = <<c.xlow, c.ylow>>
            /\ get_track_rr_node_end_coordinator(c) = <<c.xhigh, c.yhigh>>
            /\ get_track_rr_node_end_track_id(c) = c.track_ids[Len(c.track_ids)]
       /\ c.direction = "DEC_DIRECTION" =>
            /\ track_rr_node_asserts(c)
            /\ get_track_rr_node_start_coordinator(c) = <<c.xhigh, c.yhigh>>
            /\ get_track_rr_node_end_coordinator(c) = <<c.xlow, c.ylow>>
            /\ get_track_rr_node_end_track_id(c) = c.track_ids[1]
  /\ (last.op = "get_track" /\ last.status = "Ok") =>
       LET c == rr_node(nodes, last.ref.id) IN
       /\ c.direction = "INC_DIRECTION" =>
            /\ last.ref.start = <<c.xlow, c.ylow>>
            /\ last.ref.end = <<c.xhigh, c.yhigh>>
            /\ last.ref.end_track_id = c.track_ids[Len(c.track_ids)]
       /\ c.direction = "DEC_DIRECTION" =>
            /\ last.ref.start = <<c.xhigh, c.yhigh>>
            /\ last.ref.end = <<c.xlow, c.ylow>>
            /\ last.ref.end_track_id = c.track_ids[1]

\* The track functions called on a Decreasing channel node over more than one
\* tile, with different track ids at its two ends, in a store that also holds
\* such an Increasing one.
C8_Witness ==
  /\ last.op = "get_track" /\ last.status = "Ok"
  /\ rr_node(nodes, last.ref.id).direction = "DEC_DIRECTION"
  /\ last.ref.start # last.ref.end
  /\ last.ref.end_track_id # rr_node(nodes, last.ref.id).track_ids[Len(rr_node(nodes, last.ref.id).track_ids)]
  /\ \E m \in ChannelNodes :
       /\ rr_node(nodes, m).direction = "INC_DIRECTION"
       /\ get_track_rr_node_start_coordinator(rr_node(nodes, m))
            # get_track_rr_node_end_coordinator(rr_node(nodes, m))
       /\ rr_node(nodes, m).track_ids[1] # get_track_rr_node_end_track_id(rr_node(nodes, m))

(***************************************************************************)
(* Properties of the canonicalizer.                                        *)
(***************************************************************************)
\* The instances canonicalized so far in this run.
Processed == 1 .. scan - 1

\* The instances reached from a set of instances over at most k links.
RECURSIVE LinkClosure(_, _)
LinkClosure(S, k) ==
  IF k = 0 THEN S
  ELSE LinkClosure(S \cup (({mirror[j] : j \in S} \cup {rotatable[j] : j \in S}) \ {NoLink}),
                   k - 1)

\* A unique module: an instance that is linked to no other.
IsRepresentative(i) == mirror[i] = NoLink /\ rotatable[i] = NoLink

\* The unique modules the links of an instance lead to.
RepresentativesOf(i) ==
  {r \in LinkClosure({i}, Len(instances)) : IsRepresentative(r)}

\* C9: every canonicalized instance maps to exactly one representative, the
\* representative of a representative is the representative itself, and
\* there are no more representatives than instances.
C9_OneRepresentative ==
  /\ \A i \in Processed : Cardinality(RepresentativesOf(i)) = 1
  /\ \A i \in Processed : \A r \in RepresentativesOf(i) : RepresentativesOf(r) = {r}
  /\ Cardinality(UNION {RepresentativesOf(i) : i \in Processed}) <= Cardinality(Processed)

\* A finished run over MaxInstances instances that left fewer
\* representatives than instances, with an exact mirror of an instance that
\* is itself a rotation of a unique module.
C9_Witness ==
  /\ scan = Len(instances) + 1
  /\ Len(instances) = MaxInstances
  /\ Cardinality(UNION {RepresentativesOf(i) : i \in Processed}) = 2
  /\ \E i \in Processed :
       /\ mirror[i] # NoLink
       /\ rotatable[mirror[i]] # NoLink
       /\ RepresentativesOf(i) = {rotatable[mirror[i]]}

\* The instances of the kind of instance i that come before position p.
SameBlockBefore(i, p) ==
  {j \in 1 .. p - 1 : instances[j].block = instances[i].block}

\* C10: first-seen wins: a mirror link points at the first instance of the
\* scan that is identical, a rotatable link at the first one that a rotation
\* makes identical, both earlier in the scan than the linked instance; and a
\* run of the algorithm on the same device ends with the links the first run
\* ended with.
C10_FirstSeenWins ==
  /\ \A i \in DOMAIN instances :
       /\ mirror[i] # NoLink =>
            /\ mirror[i] \in SameBlockBefore(i, i)
            /\ instances[mirror[i]].sig = instances[i].sig
            /\ \A j \in SameBlockBefore(i, mirror[i]) : instances[j].sig # instances[i].sig
       /\ rotatable[i] # NoLink =>
            /\ rotatable[i] \in SameBlockBefore(i, i)
            /\ Rotate(instances[rotatable[i]].sig, offset[i]) = instances[i].sig
            /\ \A j \in SameBlockBefore(i, rotatable[i]) :
                 RotationOffsets(instances[i].sig, instances[j].sig) = {}
  /\ (runs > 1 /\ scan = Len(instances) + 1) => Links = first_run

\* A second run that has ended, on a device where an instance had two
\* identical instances before it and took the first, and another instance is
\* rotatable.
C10_Witness ==
  /\ runs = MaxRuns /\ scan = Len(instances) + 1
  /\ \E i \in DOMAIN instances :
       /\ mirror[i] # NoLink
       /\ \E j \in SameBlockBefore(i, i) :
            mirror[i] < j /\ instances[j].sig = instances[i].sig
  /\ \E k \in DOMAIN instances : rotatable[k] # NoLink /\ offset[k] # ZeroOffset

\* C11: an instance is an exact mirror of an earlier instance only if the
\* two have the same kind and the same full wiring signature: the same pin
\* and track connectivity and the same switch types.
C11_MirrorOnlyIfIdentical ==
  \A i \in DOMAIN instances :
    mirror[i] # NoLink =>
      /\ instances[mirror[i]].block = instances[i].block
      /\ instances[mirror[i]].sig.ipin = instances[i].sig.ipin
      /\ instances[mirror[i]].sig.opin = instances[i].sig.opin
      /\ instances[mirror[i]].sig.chan = instances[i].sig.chan
      /\ instances[mirror[i]].sig.switch = instances[i].sig.switch

\* An exact mirror on a device that also has, earlier in the scan, an
\* instance of the same kind that differs from it in the switch type only and
\* one that is a rotation of it.
C11_Witness ==
  \E i \in DOMAIN instances :
    /\ mirror[i] # NoLink
    /\ \E j \in SameBlockBefore(i, i) :
         /\ is_mirror_without_switches(instances[i].sig, instances[j].sig)
         /\ ~is_mirror(instances[i].sig, instances[j].sig)
    /\ \E j \in SameBlockBefore(i, i) :
         RotationOffsets(instances[i].sig, instances[j].sig) # {}

\* C12: the offsets stored with a rotatable instance, applied to the wiring
\* signature of its representative, give the signature of the instance.
C12_OffsetsReproduceSignature ==
  \A i \in Processed :
    rotatable[i] # NoLink =>
      \A r \in RepresentativesOf(i) :
        Rotate(instances[r].sig, offset[i]) = instances[i].sig

\* A rotatable instance whose stored offsets are not zero, and differ from
\* the offsets that would turn the instance into its representative.
C12_Witness ==
  \E i \in Processed :
    /\ rotatable[i] # NoLink
    /\ offset[i] # ZeroOffset
    /\ offset[i] \notin RotationOffsets_reversed(instances[i].sig,
                                                instances[rotatable[i]].sig)

\* The unique modules of one kind.
UniqueModules(b) ==
  {i \in DOMAIN instances : instances[i].block = b /\ IsRepresentative(i)}

Interior == (1 .. nx) \X (1 .. ny)

\* Nothing has been handed out to tile c.
TileUntouched(c) ==
  /\ \A i \in 1 .. Len(visited) : visited[i] # c
  /\ grid_reserved_conf_bits[c] = 0
  /\ grid_conf_bits_lsb[c] = 0
  /\ grid_conf_bits_msb[c] = 0
  /\ \A m \in DOMAIN spice_model :
       spice_model[m].grid_index_low[c] = 0 /\ spice_model[m].grid_index_high[c] = 0

\* C14: on a device with nx = 0 or ny = 0 the pass ends in the error outcome
\* of the grid-size check and hands out nothing: no node is allocated, no
\* tile has a grid index or a configuration-bit range, and the counters of
\* the memory bits and of the spice models are those at entry.
C14_DeviceTooSmall ==
  ((0 = nx) \/ (0 = ny)) =>
    /\ pc \in {"entry", "invalid"}
    /\ num_rr_nodes(nodes) = 0
    /\ \A c \in DOMAIN grid : TileUntouched(c)
    /\ num_mem_bit = entry_mem_bit /\ num_bl = entry_mem_bit /\ num_wl = entry_mem_bit
    /\ spice_model = SpiceModels(nx, ny, entry_mem_bit)

\* The pass has ended in the error outcome on a device with ny = 0 and
\* nx > 0 whose counter was not 0 at entry.
C14_Witness ==
  /\ pc = "invalid"
  /\ nx = MaxNx /\ ny = 0
  /\ entry_mem_bit > 0

\* C15: an I/O tile at an interior coordinate makes the pass fail when the
\* traversal reaches it: the tile never has a grid index or a
\* configuration-bit range, only tiles before it in the order are visited,
\* the pass never goes on to the I/O ring, and a pass that fails in the
\* interior stands on an I/O tile.
C15_InteriorIOFails ==
  /\ \A c \in Interior :
       grid[c].type = IO_TYPE =>
         /\ TileUntouched(c)
         /\ \A i \in 1 .. Len(visited) : EarlierInOrder(visited[i], c)
         /\ pc \in {"entry", "core", "abort"}
         /\ pc = "abort" => <<ix, iy>> = c
  /\ (pc = "abort" /\ <<ix, iy>> \in Interior) => grid[<<ix, iy>>].type = IO_TYPE

\* The pass has failed on the interior I/O tile of a 2 x 2 device after it
\* handed out ranges to the tiles before it.
C15_Witness ==
  /\ pc = "abort"
  /\ nx = 2 /\ ny = 2
  /\ <<ix, iy>> \in Interior
  /\ grid[<<ix, iy>>].type = IO_TYPE
  /\ Len(visited) = 3
  /\ num_mem_bit > entry_mem_bit

(***************************************************************************)
(* Properties of the pins of a grid tile.                                  *)
(***************************************************************************)
\* The one side a tile of the I/O ring has its pins on.
FacingSide(c) ==
  IF c.y = MaxNy + 1 THEN "BOTTOM"
  ELSE IF c.x = MaxNx + 1 THEN "LEFT"
  ELSE IF c.y = 0 THEN "TOP"
  ELSE "RIGHT"

\* The pins of the tile of one type that face a side at a height.
PinsFacing(pin_type, pin_side, pin_height) ==
  {ipin \in 0 .. tile.num_pins - 1 :
     /\ tile.pinloc[pin_height][pin_side][ipin] = 1
     /\ tile.class_inf[tile.pin_class[ipin]].type = pin_type}

\* C16: for an I/O tile of the ring the side determined is the bottom on the
\* top row, the left on the right column, the top on the bottom row and the
\* right on the left column; the pins listed are, for every height and pin
\* type, exactly the pins of that type facing that side, and the pins
\* counted are those facing that side at all heights.
C16_PerimeterIOOneSide ==
  (tile.type = IO_TYPE
     /\ <<tile_coordinator.x, tile_coordinator.y>> \in Perimeter) =>
    /\ tile_io_side \in {"unset", FacingSide(tile_coordinator)}
    /\ pin_out.call = "get_grid_side_pins" =>
         /\ pin_out.pin_side = FacingSide(tile_coordinator)
         /\ {pin_out.value[k] : k \in DOMAIN pin_out.value} =
              PinsFacing(pin_out.pin_type, FacingSide(tile_coordinator), pin_out.pin_height)
         /\ Len(pin_out.value) = Cardinality({pin_out.value[k] : k \in DOMAIN pin_out.value})
    /\ pin_out.call = "get_grid_num_pins" =>
         pin_out.value =
           Cardinality({hp \in (0 .. tile.height - 1) \X (0 .. tile.num_pins - 1) :
                          hp[2] \in PinsFacing(pin_out.pin_type,
                                               FacingSide(tile_coordinator), hp[1])})

\* The pins of a tile of the top row are counted; the tile is two high, one
\* of its pins faces the bottom and another the top only, and one pin is
\* counted.
C16_Witness ==
  /\ tile.type = IO_TYPE
  /\ tile_coordinator.y = MaxNy + 1
  /\ tile.height = 2
  /\ pin_out.call = "get_grid_num_pins"
  /\ pin_out.value = 1
  /\ \E p, q \in 0 .. tile.num_pins - 1 :
       /\ p \in PinsFacing(pin_out.pin_type, "TOP", tile.height - 1)
       /\ \A h \in 0 .. tile.height - 1 : tile.pinloc[h]["BOTTOM"][p] = 0
       /\ q \in PinsFacing(pin_out.pin_type, "BOTTOM", 0)

(***************************************************************************)
(* Properties of the routing blocks of the top-level netlist.              *)
(***************************************************************************)
\* The GSBs the loop of the current pass has finished, and those of a pass.
GsbsDone(pass) ==
  IF dump_pc = pass
    THEN {c \in GsbCoords(device_rr_gsb.gsb_range) :
            c[1] < dump_ix \/ (c[1] = dump_ix /\ c[2] < dump_iy)}
  ELSE IF dump_pc = "done" \/ (pass = "switch_boxes" /\ dump_pc = "connection_boxes")
    THEN GsbCoords(device_rr_gsb.gsb_range)
  ELSE {}

\* The positions of the netlist that instantiate the connection box of
\* type cb_type of the GSB at c.
CbInstancesOf(cb_type, c) ==
  {k \in DOMAIN netlist :
     netlist[k].instance = gen_cb_verilog_instance_name(get_gsb(c[1], c[2]), cb_type)}

\* C17: the netlist instantiates the connection box of type T of a GSB only
\* if the existence check for T at the coordinate of that connection box is
\* true, and at most once.
C17_CbOnlyWhereItExists ==
  \A cb_type \in ChannelTypes, c \in GsbCoords(device_rr_gsb.gsb_range) :
    LET rr_gsb == get_gsb(c[1], c[2]) IN
    /\ CbInstancesOf(cb_type, c) # {} =>
         /\ is_cb_exist(cb_type, rr_gsb.cb_coordinator[cb_type].x,
                        rr_gsb.cb_coordinator[cb_type].y)
         /\ rr_gsb.cb_exist[cb_type]
    /\ Cardinality(CbInstancesOf(cb_type, c)) <= 1

\* A finished dump of a device where the connection box of one GSB has been
\* instantiated, that of another has not because the global check fails at
\* its coordinate though the GSB has it, and a third because the GSB lacks
\* it.
C17_Witness ==
  /\ dump_pc = "done"
  /\ \E a, b, c \in GsbCoords(device_rr_gsb.gsb_range) :
       /\ CbInstancesOf("CHANX", a) # {}
       /\ CbInstancesOf("CHANX", b) = {}
       /\ get_gsb(b[1], b[2]).cb_exist["CHANX"]
       /\ CbInstancesOf("CHANX", c) = {}
       /\ ~get_gsb(c[1], c[2]).cb_exist["CHANX"]

\* The positions of the netlist that instantiate the switch box at c.
SbInstancesOf(c) ==
  {k \in DOMAIN netlist :
     netlist[k].instance = gen_sb_verilog_instance_name(get_gsb(c[1], c[2]))}

\* C18: every GSB coordinate the loop over the switch boxes has finished is
\* instantiated exactly once and no other is; after the dump that is every
\* coordinate of the range. The instance is named after its own coordinate
\* and instantiates the module of the unique module of that coordinate.
C18_OneSwitchBoxPerGsb ==
  /\ \A c \in GsbCoords(device_rr_gsb.gsb_range) :
       /\ Cardinality(SbInstancesOf(c)) =
            (IF c \in GsbsDone("switch_boxes") THEN 1 ELSE 0)
       /\ \A k \in SbInstancesOf(c) :
            /\ netlist[k].instance = <<"sb_inst", c[1], c[2]>>
            /\ netlist[k].module =
                 <<"sb", device_rr_gsb.sb_unique_module[c].x,
                   device_rr_gsb.sb_unique_module[c].y>>
  /\ \A k \in DOMAIN netlist :
       netlist[k].instance[1] = "sb_inst" =>
         \E c \in GsbCoords(device_rr_gsb.gsb_range) : k \in SbInstancesOf(c)
  /\ dump_pc = "done" =>
       \A c \in GsbCoords(device_rr_gsb.gsb_range) : Cardinality(SbInstancesOf(c)) = 1

\* A finished dump of MaxGsb x MaxGsb GSBs in which two switch boxes
\* instantiate the same module, that of another coordinate than their own.
C18_Witness ==
  /\ dump_pc = "done"
  /\ device_rr_gsb.gsb_range = DeviceCoordinator(MaxGsb, MaxGsb)
  /\ \E j, k \in DOMAIN netlist :
       /\ j # k
       /\ netlist[j].instance[1] = "sb_inst"
       /\ netlist[j].module = netlist[k].module
       /\ netlist[j].instance # netlist[k].instance
       /\ <<netlist[j].module[2], netlist[j].module[3]>> #
            <<netlist[j].instance[2], netlist[j].instance[3]>>
       /\ <<netlist[k].module[2], netlist[k].module[3]>> #
            <<netlist[k].instance[2], netlist[k].instance[3]>>

(***************************************************************************)
(* Properties of BasicPort.                                                *)
(***************************************************************************)
\* C19: after expand(width) the width of the port is its width before the
\* call plus width, in size_t, whatever the port was, the default invalid
\* port included; and expand(0) leaves the port as it was.
C19_ExpandAddsWidth ==
  port_out.op = "expand" =>
    /\ get_width(port) = (get_width(port_out.before) + port_out.arg) % SizeModulus
    /\ port_out.arg = 0 => port = port_out.before

\* C20: rotate and counter_rotate never wrap. On a valid port rotate returns
\* false and changes nothing if msb + offset exceeds the maximum, else it
\* returns true with lsb and msb increased by offset; counter_rotate returns
\* false and changes nothing if offset > lsb, else it returns true with both
\* decreased by offset; a call that returns true leaves the width as it was;
\* on an invalid port and with offset 0 both return true and change nothing.
C20_RotateNeverWraps ==
  LET before == port_out.before
      shift_by == port_out.arg
  IN  /\ (port_out.op \in {"rotate", "counter_rotate"}
            /\ (shift_by = 0 \/ ~is_valid(before))) =>
           (port_out.ret /\ port = before)
      /\ (port_out.op = "rotate" /\ shift_by # 0 /\ is_valid(before)) =>
           IF before.msb + shift_by > numeric_limits_max
             THEN ~port_out.ret /\ port = before
             ELSE /\ port_out.ret
                  /\ port = [lsb |-> before.lsb + shift_by, msb |-> before.msb + shift_by]
      /\ (port_out.op = "counter_rotate" /\ shift_by # 0 /\ is_valid(before)) =>
           IF shift_by > before.lsb
             THEN ~port_out.ret /\ port = before
             ELSE /\ port_out.ret
                  /\ port = [lsb |-> before.lsb - shift_by, msb |-> before.msb - shift_by]
      /\ (port_out.op \in {"rotate", "counter_rotate"} /\ port_out.ret) =>
           get_width(port) = get_width(before)

\* C21: a port after its default constructor or reset is invalid and has
\* width 0; the width of a port is msb - lsb + 1 if msb >= lsb and 0
\* otherwise; after set_width(w) the width is w, with the invalid port for
\* w = 0 and lsb = 0, msb = w - 1 otherwise; and set_width(lsb, msb) with
\* lsb > msb gives the invalid port.
C21_WidthAccounting ==
  /\ port_out.op \in {"BasicPort", "reset"} =>
       (port = make_invalid /\ ~is_valid(port) /\ get_width(port) = 0)
  /\ get_width(port) = (IF port.msb >= port.lsb THEN port.msb - port.lsb + 1 ELSE 0)
  /\ port_out.op = "set_width" =>
       /\ get_width(port) = port_out.arg
       /\ port = (IF port_out.arg = 0 THEN make_invalid
                  ELSE [lsb |-> 0, msb |-> port_out.arg - 1])
  /\ (port_out.op = "set_width_lsb_msb" /\ port_out.arg[1] > port_out.arg[2]) =>
       port = make_invalid

\* C28: rotate and counter_rotate are inverse: a counter_rotate that follows
\* a rotate with the same offset that returned true returns true and brings
\* back the lsb and msb from before the rotate, and so does a rotate that
\* follows such a counter_rotate.
C28_RotateInverse ==
  port_out.undoes # "none" => (port_out.ret /\ port_out.undoes = "restored")

\* A counter_rotate has brought a valid port back down to lsb 0 after a
\* rotate that moved it up to the maximum.
C28_Witness ==
  /\ port_out.op = "counter_rotate"
  /\ port_out.undoes = "restored"
  /\ port_out.arg # 0
  /\ port_out.before.msb = numeric_limits_max
  /\ port.lsb = 0 /\ port.msb > 0

\* A rotate has brought a valid port back after a counter_rotate.
C28_WitnessBack ==
  /\ port_out.op = "rotate"
  /\ port_out.undoes = "restored"
  /\ port_out.arg # 0
  /\ port_out.before.lsb = 0
  /\ port.msb = numeric_limits_max

(***************************************************************************)
(* Properties of vpr_fpga_verilog.                                         *)
(***************************************************************************)
CalledBefore(earlier, i) == \E j \in 1..(i - 1) : calls[j] = earlier

\* C22: the top-level testbench is dumped only when the bitstream is
\* generated: whatever the flags, a wanted top testbench switches the
\* bitstream generator on, and whenever dump_verilog_top_testbench is called,
\* vpr_fpga_generate_bitstream was called before it.
C22_TopTestbenchAfterBitstream ==
  /\ (api_pc # "force_bitstream" /\ caller_setup["print_top_testbench"]) =>
       vpr_setup["gen_bitstream"]
  /\ \A i \in 1..Len(calls) :
       calls[i] = "dump_verilog_top_testbench" =>
         CalledBefore("vpr_fpga_generate_bitstream", i)

\* The caller asked for the top testbench without the bitstream, and the
\* testbench has been dumped.
C22_Witness ==
  /\ ~caller_setup["gen_bitstream"]
  /\ caller_setup["print_top_testbench"]
  /\ api_pc = "return"
  /\ \E i \in 1..Len(calls) : calls[i] = "dump_verilog_top_testbench"

(***************************************************************************)
(* Properties of dump_compact_verilog_logic_blocks.                        *)
(***************************************************************************)
FilesOf(itype) == { i \in 1 .. Len(lb_files) : lb_files[i].itype = itype }

TypeOf(file) == lb_types[file.itype + 1]

\* The loop over the types has ended.
TypesDumped == lb_pc \notin {"snapshot_spice_model_counter", "snapshot_sram_orgz_info", "types"}

\* C23: one module per block type: four for the I/O type, one for each
\* border side 0..3, one for the CLB and for each heterogeneous type, none
\* for the empty type; and inside a module the submodule body is dumped once
\* if the capacity is at least 1, while every one of the capacity instances
\* is instantiated.
C23_OneModulePerBlockType ==
  /\ TypesDumped =>
       \A itype \in 0 .. num_types - 1 :
         LET kind == lb_types[itype + 1].kind
             sides == { lb_files[i].border_side : i \in FilesOf(itype) } IN
         CASE kind = EMPTY_TYPE -> FilesOf(itype) = {}
           [] kind = IO_TYPE -> Cardinality(FilesOf(itype)) = 4 /\ sides = 0 .. 3
           [] OTHER -> Cardinality(FilesOf(itype)) = 1 /\ sides = {-1}
  /\ \A i \in 1 .. Len(lb_files) :
       LET capacity == TypeOf(lb_files[i]).td.capacity IN
       /\ Len(lb_files[i].submodules) = (IF capacity >= 1 THEN 1 ELSE 0)
       /\ Len(lb_files[i].sub_blocks) = capacity
       /\ \A z \in 1 .. capacity : lb_files[i].sub_blocks[z].iz = z - 1

\* All block types, a heterogeneous one among them, have been dumped, and
\* the I/O type holds two instances.
C23_Witness ==
  /\ TypesDumped
  /\ \E itype \in 0 .. num_types - 1 : lb_types[itype + 1].kind = HETERO_TYPE
  /\ \E i \in 1 .. Len(lb_files) :
       /\ TypeOf(lb_files[i]).kind = IO_TYPE
       /\ lb_files[i].border_side = 3
       /\ Len(lb_files[i].sub_blocks) = 2
       /\ Len(lb_files[i].submodules) = 1

C25_SlicesPartitionTheBits ==
  \A i \in 1 .. Len(lb_files) :
    LET td == TypeOf(lb_files[i]).td
        bits == td.physical_mode_num_conf_bits
        pads == td.physical_mode_num_iopads
        sub == lb_files[i].sub_blocks IN
    /\ lb_files[i].assert_conf_bits
    /\ Len(sub) = td.capacity
    /\ \A z \in 1 .. Len(sub) :
         /\ sub[z].conf_bits = <<(z - 1) * bits, z * bits>>
         /\ sub[z].iopad = <<(z - 1) * pads, z * pads>>
    /\ lb_files[i].iopad = <<0, td.capacity * pads>>

\* A netlist of a block with two instances, each with a configuration bit
\* and a pad, and a netlist of a block without instances.
C25_Witness ==
  /\ \E i \in 1 .. Len(lb_files) :
       /\ Len(lb_files[i].sub_blocks) = 2
       /\ lb_files[i].sub_blocks[2].conf_bits = <<1, 2>>
       /\ lb_files[i].sub_blocks[2].iopad = <<1, 2>>
  /\ \E i \in 1 .. Len(lb_files) :
       /\ TypeOf(lb_files[i]).td.capacity = 0
       /\ TypeOf(lb_files[i]).td.physical_mode_num_conf_bits > 0
       /\ lb_files[i].assert_conf_bits

(***************************************************************************)
(* Properties of ProcessSegments.                                          *)
(***************************************************************************)
Known(name) == \E j \in 1 .. NumSwitches : Switches[j] = name

\* The switch names the element read last refers to.
Referred(node) ==
  CASE node.type = "unidir" -> {node.mux}
    [] node.type = "bidir" -> {node.wire_switch, node.opin_switch}
    [] OTHER -> {}

\* C26: the wire_switch and the opin_switch of every loaded segment are
\* indexes of existing switches, 0 <= index < NumSwitches, and equal for a
\* unidirectional segment; a segment element that names an unknown switch
\* ends the parsing instead of being loaded with a dangling index.
C26_SegmentSwitchesExist ==
  /\ \A i \in 1 .. Len(Segs) :
       /\ Segs[i].wire_switch \in 0 .. NumSwitches - 1
       /\ Segs[i].opin_switch \in 0 .. NumSwitches - 1
       /\ Segs[i].directionality = UNI_DIRECTIONAL =>
            Segs[i].wire_switch = Segs[i].opin_switch
  /\ seg_pc = "return" => Len(Segs) = NumSegs
  /\ (\E name \in Referred(seg_node) : ~Known(name)) => seg_pc = "exit"

\* The parsing has succeeded with a unidirectional segment and a
\* bidirectional one whose two switches differ.
C26_Witness ==
  /\ seg_pc = "return"
  /\ \E i \in 1 .. Len(Segs) : Segs[i].directionality = UNI_DIRECTIONAL
  /\ \E i \in 1 .. Len(Segs) :
       /\ Segs[i].directionality = BI_DIRECTIONAL
       /\ Segs[i].wire_switch # Segs[i].opin_switch

(***************************************************************************)
(* Properties of dump_compact_verilog_defined_one_grid.                    *)
(***************************************************************************)
\* The module the instantiation of a tile refers to.
ModuleOf(grid_tile) ==
  dump_compact_verilog_one_physical_block(0, grid_tile.type, grid_tile.border_side)

\* C27: in the instantiation of a grid the formal-verification SRAM ports
\* are connected exactly when the regular SRAM ports are, which is when the
\* range of configuration bits of the grid is not empty,
\* grid_conf_bits_msb - grid_conf_bits_lsb >= 1, and that is also when the
\* instantiated module declares these ports.
C27_FormalPortsWithSramPorts ==
  \A i \in 1 .. Len(dg_out) :
    LET width == dg_sram_orgz_info.grid_conf_bits_msb
                   - dg_sram_orgz_info.grid_conf_bits_lsb IN
    /\ dg_out[i].sram_local_ports = (width >= 1)
    /\ dg_out[i].formal_verification_sram_ports = dg_out[i].sram_local_ports
    /\ ModuleOf(dg_tile).sram_ports = (width >= 1)
    /\ ModuleOf(dg_tile).formal_verification_sram_ports = (width >= 1)

====
